---- MODULE Spec2Model ----

(***************************************************************************)
(* State-machine model of the web-search client of the MCP tool box:       *)
(* RateLimiter, Cache, the retry / timeout / error-classification helpers, *)
(* searchWeb and generateAnswerWithSonar.                                  *)
(*                                                                         *)
(* Time is a discrete clock `now` (the value Date.now() returns); every    *)
(* duration of the program (window, ttl, timeout, backoff delay) is given  *)
(* in ticks of that clock.  One action is one run-to-completion step of    *)
(* the JavaScript event loop: the synchronous prefix of an async function  *)
(* up to its first pending await, or the continuation run when a network   *)
(* response or a timer fires.                                              *)
(*                                                                         *)
(* Spec is the client as the repository links it: getEnv() of helpers.ts   *)
(* never returns PERPLEXITY_API_KEY, so every search() and                 *)
(* generateAnswer() ends at the credential check and nothing is posted.    *)
(* The RateLimiter, the Cache, withRetry / withTimeout and the pure        *)
(* functions are also taken on their own (SpecLimiter, SpecCache,          *)
(* SpecRetry, SpecFn, SpecAddr), called as their exports allow.            *)
(***************************************************************************)
EXTENDS Integers, Sequences, FiniteSets, TLC

(***************************************************************************)
(* Bounds of the model and configuration values (in clock ticks).          *)
(***************************************************************************)
MaxTime == 6         \* the clock of Spec stops here
limit == 1           \* RateLimiter.limit
windowMs == 2        \* RateLimiter.windowMs
retryAfterMs == 2    \* RateLimiter.retryAfterMs
defaultTtl == 3      \* Cache.defaultTtl
cleanupIntervalMs == 3 \* period of the Cache's cleanup interval
timeoutMs == 1       \* WEB_SEARCH_TIMEOUT_MS as read by makePerplexityRequest
baseDelay == 1       \* withRetry's baseDelay
maxRetries == 2      \* withRetry's maxRetries
MaxResults == 3      \* longest result list given to a function on its own
pollMs == 1          \* longest sleep of one iteration of waitUntilAllowed
LimiterMaxTime == 5  \* the clock of SpecLimiter stops here
MaxRequests == 3     \* most timestamps recorded under SpecLimiter
CacheMaxTime == 7    \* the clock of SpecCache stops here

\* The callers of search() / generateAnswer(): two, whose calls may start
\* within one turn of the event loop.
Procs == {1, 2}

(***************************************************************************)
(* JavaScript values.  Strings are sequences of characters so that join    *)
(* and concatenation are computed, not assumed.                            *)
(***************************************************************************)
Undef == [t |-> "undefined"]
Null == [t |-> "null"]
S(s) == [t |-> "string", s |-> s]
N(n) == [t |-> "number", n |-> n]
B(b) == [t |-> "boolean", b |-> b]
A(a) == [t |-> "array", a |-> a]

\* JavaScript truthiness (the operand of ||, !, if).
Truthy(x) ==
    CASE x.t = "undefined" -> FALSE
      [] x.t = "null" -> FALSE
      [] x.t = "string" -> x.s # <<>>
      [] x.t = "number" -> x.n # 0
      [] x.t = "boolean" -> x.b
      [] OTHER -> TRUE

Digit(d) == <<"0", "1", "2", "3", "4", "5", "6", "7", "8", "9">>[d + 1]

RECURSIVE NumToStr(_)
NumToStr(n) == IF n < 10 THEN <<Digit(n)>> ELSE NumToStr(n \div 10) \o <<Digit(n % 10)>>

RECURSIVE Join(_, _)

\* Array.prototype.join over a sequence of strings.
Join(parts, sep) ==
    IF parts = <<>> THEN <<>>
    ELSE IF Len(parts) = 1 THEN parts[1]
    ELSE parts[1] \o sep \o Join(Tail(parts), sep)

\* String(x) as join applies it to an array element.
ToStr(x) ==
    CASE x.t = "string" -> x.s
      [] x.t = "number" -> NumToStr(x.n)
      [] x.t = "boolean" -> IF x.b THEN <<"t", "r", "u", "e">> ELSE <<"f", "a", "l", "s", "e">>
      [] x.t = "array" -> Join(x.a, <<",">>)
      [] OTHER -> <<>>

RECURSIVE SelectDefined(_)
SelectDefined(parts) ==
    IF parts = <<>> THEN <<>>
    ELSE IF Head(parts).t = "undefined" THEN SelectDefined(Tail(parts))
    ELSE <<Head(parts)>> \o SelectDefined(Tail(parts))

RECURSIVE MapToStr(_)
MapToStr(parts) ==
    IF parts = <<>> THEN <<>> ELSE <<ToStr(Head(parts))>> \o MapToStr(Tail(parts))

\* createCacheKey: the eleven scalar fields in literal order, then the joined
\* operators and exclude_sites when present, undefined parts dropped, joined by "|".
createCacheKey(params) ==
    LET scalars == <<params.q, params.top_k, params.time_range, params.site,
                     params.lang, params.region, params.safe_mode,
                     params.include_snippets, params.from, params.to, params.dedupe>>
        withOps == IF Truthy(params.operators)
                   THEN Append(scalars, S(Join(params.operators.a, <<",">>)))
                   ELSE scalars
        withEx == IF Truthy(params.exclude_sites)
                  THEN Append(withOps, S(Join(params.exclude_sites.a, <<",">>)))
                  ELSE withOps
    IN Join(MapToStr(SelectDefined(withEx)), <<"|">>)

\* searchWeb, lines 116-163: the query string and the payload posted to the
\* search endpoint; a field the code does not set is undefined.
buildPayload(params) ==
    LET present(x) == IF Truthy(x) THEN x ELSE Undef
        nonEmpty(x) == IF Truthy(x) /\ x.a # <<>> THEN x ELSE Undef
    IN [query |-> IF Truthy(params.operators) /\ params.operators.a # <<>>
                  THEN S(ToStr(params.q) \o <<" ">> \o Join(params.operators.a, <<" ">>))
                  ELSE params.q,
        top_k |-> IF Truthy(params.top_k) THEN params.top_k ELSE N(10),
        time_range |-> IF Truthy(params.time_range) THEN params.time_range
                       ELSE S(<<"a", "n", "y">>),
        safe_mode |-> B(params.safe_mode # B(FALSE)),
        include_snippets |-> B(params.include_snippets # B(FALSE)),
        site |-> present(params.site),
        lang |-> present(params.lang),
        region |-> present(params.region),
        from |-> present(params.from),
        to |-> present(params.to),
        exclude_sites |-> nonEmpty(params.exclude_sites),
        dedupe |-> present(params.dedupe),
        aggregate |-> params.aggregate]

BaseParams ==
    [q |-> S(<<"a">>), top_k |-> Undef, time_range |-> Undef, site |-> Undef,
     lang |-> Undef, region |-> Undef, safe_mode |-> Undef,
     include_snippets |-> Undef, from |-> Undef, to |-> Undef, dedupe |-> Undef,
     operators |-> Undef, exclude_sites |-> Undef, aggregate |-> Undef,
     sonar_model |-> Undef]

\* The parameter sets the callers of the model pass.
ParamSets ==
    { BaseParams,
      [BaseParams EXCEPT !.q = S(<<"b">>), !.top_k = N(3),
                         !.dedupe = S(<<"d", "o", "m", "a", "i", "n">>),
                         !.sonar_model = S(<<"s", "o", "n", "a", "r">>)] }

(***************************************************************************)
(* RateLimiter (sliding window over recorded timestamps).                  *)
(***************************************************************************)
\* A filter that keeps a timestamp exactly windowMs old (<= for <).
PruneRequests_Inclusive(reqs, t) == SelectSeq(reqs, LAMBDA ts : t - ts <= windowMs)

\* requests.filter(timestamp => now - timestamp < windowMs)
PruneRequests(reqs, t) == SelectSeq(reqs, LAMBDA ts : t - ts < windowMs)

\* checkLimit that admits one request too many (<= for <).
checkLimit_OffByOne(reqs, t) ==
    LET kept == PruneRequests(reqs, t)
    IN [requests |-> kept, allowed |-> Len(kept) <= limit]

\* checkLimit(): the pruned sequence and the answer.
checkLimit(reqs, t) ==
    LET kept == PruneRequests(reqs, t)
    IN [requests |-> kept, allowed |-> Len(kept) < limit]

\* increment(): push(Date.now())
increment(reqs, t) == Append(reqs, t)

Max2(a, b) == IF a >= b THEN a ELSE b
Min2(a, b) == IF a <= b THEN a ELSE b

\* Math.min(...requests), for a sequence that is not empty.
SeqMin(reqs) ==
    CHOOSE x \in {reqs[i] : i \in 1..Len(reqs)} : \A i \in 1..Len(reqs) : x <= reqs[i]

\* A getTimeToWait() without the floor of retryAfterMs.
getTimeToWait_NoFloor(reqs, t) ==
    LET kept == PruneRequests(reqs, t)
    IN [requests |-> kept,
        value |-> IF Len(kept) < limit THEN 0 ELSE SeqMin(kept) + windowMs - t]

\* getTimeToWait(): the pruned sequence and the time returned.
getTimeToWait(reqs, t) ==
    LET kept == PruneRequests(reqs, t)
    IN [requests |-> kept,
        value |-> IF Len(kept) < limit THEN 0
                  ELSE Max2(SeqMin(kept) + windowMs - t, retryAfterMs)]

\* getStatus(): the pruned sequence and the object returned.
getStatus(reqs, t) ==
    LET kept == PruneRequests(reqs, t)
        w == getTimeToWait(kept, t)
    IN [requests |-> w.requests,
        value |-> [current |-> Len(kept), limit |-> limit, windowMs |-> windowMs,
                   isAllowed |-> Len(kept) < limit, timeToWait |-> w.value]]

\* reset()
reset(reqs) == <<>>

\* A loop of waitUntilAllowed() that goes on only while the time to wait
\* exceeds retryAfterMs.
waitUntilAllowedStep_WrongTest(reqs, t) ==
    LET w == getTimeToWait(reqs, t)
    IN [requests |-> w.requests, waitTime |-> w.value,
        pc |-> IF w.value > retryAfterMs THEN "sleeping" ELSE "returned",
        wake |-> t + Min2(w.value, pollMs)]

\* waitUntilAllowed(): one evaluation of getTimeToWait() and of the loop
\* test; the loop either sleeps min(waitTime, 100 ms) or is left.
waitUntilAllowedStep(reqs, t) ==
    LET w == getTimeToWait(reqs, t)
    IN [requests |-> w.requests, waitTime |-> w.value,
        pc |-> IF w.value > 0 THEN "sleeping" ELSE "returned",
        wake |-> t + Min2(w.value, pollMs)]

(***************************************************************************)
(* Cache (Map of key -> {data, timestamp, ttl}); a function whose domain   *)
(* is the set of keys present.                                             *)
(***************************************************************************)
MapDelete(m, k) == [x \in (DOMAIN m) \ {k} |-> m[x]]
MapSet(m, k, v) == [x \in (DOMAIN m) \cup {k} |-> IF x = k THEN v ELSE m[x]]

\* An expiry test that already fails an entry exactly ttl old (>= for >).
Expired_AtTtl(entry, t) == t - entry.timestamp >= entry.ttl

\* Date.now() - entry.timestamp > entry.ttl
Expired(entry, t) == t - entry.timestamp > entry.ttl

\* get(key): the map afterwards and the value returned (Null for none).
cacheGet(m, k, t) ==
    IF k \notin DOMAIN m THEN [cache |-> m, value |-> Null]
    ELSE IF Expired(m[k], t) THEN [cache |-> MapDelete(m, k), value |-> Null]
    ELSE [cache |-> m, value |-> m[k].data]

\* set(key, data, ttl?): ttl || defaultTtl
cacheSet(m, k, data, ttl, t) ==
    MapSet(m, k, [data |-> data, timestamp |-> t,
                  ttl |-> IF Truthy(ttl) THEN ttl.n ELSE defaultTtl])

\* delete(key)
cacheDelete(m, k) == MapDelete(m, k)

\* clear()
cacheClear(m) == <<>>

\* A sweep that empties the cache.
cacheCleanup_All(m, t) == <<>>

\* The callback of the cleanup interval: every entry with
\* now - entry.timestamp > entry.ttl is deleted.
cacheCleanup(m, t) == [k \in {j \in DOMAIN m : ~Expired(m[j], t)} |-> m[k]]

(***************************************************************************)
(* Security filter.  A string the WHATWG URL parser accepts is held as its *)
(* parsed components (t = "url"); every other value makes new URL() throw. *)
(* Host names and raw strings are character sequences.                     *)
(***************************************************************************)
Url(scheme, user, host, path, frag) ==
    [t |-> "url", scheme |-> scheme, user |-> user, host |-> host,
     path |-> path, frag |-> frag]

Parses(x) == x.t = "url"

Pow2(k) == 2 ^ k

MinInt32 == -Pow2(30) - Pow2(30)
MaxInt32 == Pow2(30) + (Pow2(30) - 1)

\* a << k on 32-bit integers: the shift count is taken modulo 32, the bits
\* shifted beyond bit 31 are lost and bit 31 is the sign.
Shl32(a, k) ==
    LET c == k % 32
    IN IF c = 0 THEN a
       ELSE LET low == a % Pow2(31 - c)
                sign == (a \div Pow2(31 - c)) % 2
            IN (IF low = 0 THEN 0 ELSE low * Pow2(c)) + (IF sign = 1 THEN MinInt32 ELSE 0)

\* ToInt32(a - 1)
Dec32(a) == IF a = MinInt32 THEN MaxInt32 ELSE a - 1

RECURSIVE And32(_, _)

\* a & b on 32-bit two's-complement integers.
And32(a, b) ==
    IF a = 0 \/ b = 0 THEN 0
    ELSE IF a = -1 THEN b
    ELSE IF b = -1 THEN a
    ELSE (IF a % 2 = 1 /\ b % 2 = 1 THEN 1 ELSE 0) + 2 * And32(a \div 2, b \div 2)

\* ~a on 32-bit integers.
Not32(a) == IF a >= 0 THEN -a - 1 ELSE -(a + 1)

\* A conversion that stops at the largest positive 32-bit integer.
IpToInt_Saturating(o) ==
    IF o[1] >= 128 THEN MaxInt32
    ELSE Shl32(o[1], 24) + Shl32(o[2], 16) + Shl32(o[3], 8) + o[4]

\* (o0 << 24) + (o1 << 16) + (o2 << 8) + o3
IpToInt(o) == Shl32(o[1], 24) + Shl32(o[2], 16) + Shl32(o[3], 8) + o[4]

FORBIDDEN_IP_RANGES ==
    << [ip |-> <<127, 0, 0, 0>>, prefix |-> 8],
       [ip |-> <<10, 0, 0, 0>>, prefix |-> 8],
       [ip |-> <<172, 16, 0, 0>>, prefix |-> 12],
       [ip |-> <<192, 168, 0, 0>>, prefix |-> 16],
       [ip |-> <<169, 254, 0, 0>>, prefix |-> 16],
       [ip |-> <<0, 0, 0, 0>>, prefix |-> 8],
       [ip |-> <<100, 64, 0, 0>>, prefix |-> 10],
       [ip |-> <<192, 0, 0, 0>>, prefix |-> 24],
       [ip |-> <<192, 0, 2, 0>>, prefix |-> 24],
       [ip |-> <<198, 51, 100, 0>>, prefix |-> 24],
       [ip |-> <<203, 0, 113, 0>>, prefix |-> 24],
       [ip |-> <<224, 0, 0, 0>>, prefix |-> 4],
       [ip |-> <<240, 0, 0, 0>>, prefix |-> 4],
       [ip |-> <<255, 255, 255, 255>>, prefix |-> 32] >>

\* isIPInRange(ipInt, range)
isIPInRange(ipInt, range) ==
    IF range.prefix < 0 \/ range.prefix > 32 THEN FALSE
    ELSE LET mask == Not32(Dec32(Shl32(1, 32 - range.prefix)))
         IN And32(ipInt, mask) = And32(IpToInt(range.ip), mask)

IsDigit(c) == c \in {"0", "1", "2", "3", "4", "5", "6", "7", "8", "9"}

DigitVal(c) == CHOOSE d \in 0..9 : Digit(d) = c

RECURSIVE StrToNum(_)
StrToNum(s) == IF s = <<>> THEN 0 ELSE 10 * StrToNum(SubSeq(s, 1, Len(s) - 1)) + DigitVal(s[Len(s)])

RECURSIVE SplitDots(_, _)

\* s.split('.') with the part being read carried in cur.
SplitDots(s, cur) ==
    IF s = <<>> THEN <<cur>>
    ELSE IF Head(s) = "." THEN <<cur>> \o SplitDots(Tail(s), <<>>)
    ELSE SplitDots(Tail(s), Append(cur, Head(s)))

\* /^(\d{1,3})\.(\d{1,3})\.(\d{1,3})\.(\d{1,3})$/
MatchesIPv4(s) ==
    LET parts == SplitDots(s, <<>>)
    IN /\ Len(parts) = 4
       /\ \A i \in 1..4 : /\ Len(parts[i]) \in 1..3
                          /\ \A j \in 1..Len(parts[i]) : IsDigit(parts[i][j])

\* An address check that forbids nothing.
isForbiddenIP_Never(host) == FALSE

\* isForbiddenIP(ip)
isForbiddenIP(host) ==
    IF MatchesIPv4(host)
    THEN LET parts == SplitDots(host, <<>>)
             octets == [i \in 1..4 |-> StrToNum(parts[i])]
         IN IF \E i \in 1..4 : octets[i] > 255 THEN TRUE
            ELSE \E r \in 1..Len(FORBIDDEN_IP_RANGES) :
                     isIPInRange(IpToInt(octets), FORBIDDEN_IP_RANGES[r])
    ELSE FALSE

HostMetaGoogle ==
    <<"m", "e", "t", "a", "d", "a", "t", "a", ".", "g", "o", "o", "g", "l", "e", ".",
      "i", "n", "t", "e", "r", "n", "a", "l">>
HostAwsMeta == <<"1", "6", "9", ".", "2", "5", "4", ".", "1", "6", "9", ".", "2", "5", "4">>
HostAwsTime == <<"1", "6", "9", ".", "2", "5", "4", ".", "1", "6", "9", ".", "1", "2", "3">>
HostMetadata == <<"m", "e", "t", "a", "d", "a", "t", "a">>
HostMetaInternal ==
    <<"m", "e", "t", "a", "d", "a", "t", "a", ".", "i", "n", "t", "e", "r", "n", "a", "l">>

FORBIDDEN_HOSTNAMES == {HostMetaGoogle, HostAwsMeta, HostAwsTime, HostMetadata, HostMetaInternal}

ALLOWED_PROTOCOLS == {"https:"}

\* isValidUrl(urlString): false when new URL() throws.
isValidUrl(x) ==
    IF ~Parses(x) THEN FALSE
    ELSE IF x.scheme \notin ALLOWED_PROTOCOLS THEN FALSE
    ELSE IF x.host \in FORBIDDEN_HOSTNAMES THEN FALSE
    ELSE ~isForbiddenIP(x.host)

\* sanitizeUrl(urlString): userinfo and fragment removed; the input itself when
\* new URL() throws.
sanitizeUrl(x) ==
    IF Parses(x) THEN [x EXCEPT !.user = <<>>, !.frag = <<>>] ELSE x

(***************************************************************************)
(* Result normalisation and deduplication.                                 *)
(***************************************************************************)
\* x || fallback
OrElse(x, fallback) == IF Truthy(x) THEN x ELSE fallback

RECURSIVE normalizeResults_NoFilter(_)

\* A normalisation that maps and keeps every result.
normalizeResults_NoFilter(raw) ==
    IF raw = <<>> THEN <<>>
    ELSE <<[title |-> OrElse(Head(raw).title, S(<<>>)),
            url |-> OrElse(sanitizeUrl(Head(raw).url), S(<<>>))]>>
         \o normalizeResults_NoFilter(Tail(raw))

RECURSIVE normalizeResults(_)

\* map to {title, url, snippet, ...}, then keep title && url && isValidUrl(url)
normalizeResults(raw) ==
    IF raw = <<>> THEN <<>>
    ELSE LET r == Head(raw)
             n == [title |-> OrElse(r.title, S(<<>>)),
                   url |-> OrElse(sanitizeUrl(r.url), S(<<>>))]
             rest == normalizeResults(Tail(raw))
         IN IF Truthy(n.title) /\ Truthy(n.url) /\ isValidUrl(n.url)
            THEN <<n>> \o rest ELSE rest

StrDomain == <<"d", "o", "m", "a", "i", "n">>
StrTitle == <<"t", "i", "t", "l", "e">>
\* A key that takes the whole url for the domain.
dedupeKey_FullUrl(result, strategy) ==
    IF strategy = StrDomain THEN result.url ELSE result.title

\* The key deduplicateResults gives a result under a strategy.
dedupeKey(result, strategy) ==
    IF strategy = StrDomain
    THEN IF Parses(result.url) THEN S(result.url.host) ELSE result.url
    ELSE result.title

RECURSIVE dedupeFrom(_, _, _)
dedupeFrom(results, strategy, seen) ==
    IF results = <<>> THEN <<>>
    ELSE LET key == dedupeKey(Head(results), strategy)
         IN IF key \in seen THEN dedupeFrom(Tail(results), strategy, seen)
            ELSE <<Head(results)>> \o dedupeFrom(Tail(results), strategy, seen \cup {key})

RECURSIVE deduplicateResults_Pairwise(_, _)

\* A deduplication that compares each result with its neighbour only.
deduplicateResults_Pairwise(results, strategy) ==
    IF Len(results) < 2 THEN results
    ELSE IF dedupeKey(results[1], strategy) = dedupeKey(results[2], strategy)
    THEN <<results[1]>> \o deduplicateResults_Pairwise(Tail(Tail(results)), strategy)
    ELSE <<results[1]>> \o deduplicateResults_Pairwise(Tail(results), strategy)

\* deduplicateResults(results, strategy)
deduplicateResults(results, strategy) == dedupeFrom(results, strategy, {})

(***************************************************************************)
(* Errors.  An error value is a record: code is "" when the object has no  *)
(* code property (a plain Error, a TypeError), status is 0 when it has no  *)
(* response property.                                                      *)
(***************************************************************************)
WebSearchErrorCode ==
    {"INVALID_PARAMETERS", "API_ERROR", "NETWORK_ERROR", "RATE_LIMIT_EXCEEDED",
     "QUOTA_EXCEEDED", "SECURITY_ERROR", "TIMEOUT_ERROR", "INVALID_RESPONSE",
     "CACHE_ERROR"}

\* createWebSearchError(code, message, hint)
createWebSearchError(code, message) == [code |-> code, status |-> 0, message |-> message]

\* new Error(message), new TypeError(message)
PlainError(message) == [code |-> "", status |-> 0, message |-> message]

\* The error the timer of withTimeout rejects with.
TimeoutError == createWebSearchError("TIMEOUT_ERROR", "Operation timed out")

MsgRateLimit == "Rate limit exceeded. Please try again later."
MsgNoKey == "PERPLEXITY_API_KEY is not configured"
MsgNoModel == "Sonar model is required for sonar_answer engine"
\* message.includes('quota')
IncludesQuota(message) == message \in {"You exceeded your current quota"}

\* A classification that looks at the message before anything else.
handleApiError_QuotaFirst(error) ==
    IF error.message # "" /\ IncludesQuota(error.message)
    THEN createWebSearchError("QUOTA_EXCEEDED", "API quota exceeded")
    ELSE IF error.code \in {"ENOTFOUND", "EAI_AGAIN"}
    THEN createWebSearchError("NETWORK_ERROR", "Network error occurred while connecting to the API")
    ELSE IF error.code \in {"ETIMEDOUT", "ESOCKETTIMEDOUT"}
    THEN createWebSearchError("TIMEOUT_ERROR", "Request timed out while connecting to the API")
    ELSE IF error.status = 400
    THEN createWebSearchError("INVALID_PARAMETERS", "Invalid parameters sent to the API")
    ELSE IF error.status = 429
    THEN createWebSearchError("RATE_LIMIT_EXCEEDED", "Rate limit exceeded")
    ELSE createWebSearchError("API_ERROR", "API error")

\* handleApiError(error)
handleApiError(error) ==
    IF error.code \in {"ENOTFOUND", "EAI_AGAIN"}
    THEN createWebSearchError("NETWORK_ERROR", "Network error occurred while connecting to the API")
    ELSE IF error.code \in {"ETIMEDOUT", "ESOCKETTIMEDOUT"}
    THEN createWebSearchError("TIMEOUT_ERROR", "Request timed out while connecting to the API")
    ELSE IF error.status # 0
    THEN CASE error.status = 400 ->
                createWebSearchError("INVALID_PARAMETERS", "Invalid parameters sent to the API")
           [] error.status \in {401, 403} ->
                createWebSearchError("API_ERROR", "API authentication failed")
           [] error.status = 429 ->
                createWebSearchError("RATE_LIMIT_EXCEEDED", "Rate limit exceeded")
           [] error.status \in {500, 502, 503, 504} ->
                createWebSearchError("API_ERROR", "API service temporarily unavailable")
           [] OTHER -> createWebSearchError("API_ERROR", "API error: status statusText")
    ELSE IF error.message # "" /\ IncludesQuota(error.message)
    THEN createWebSearchError("QUOTA_EXCEEDED", "API quota exceeded")
    ELSE createWebSearchError("API_ERROR",
             IF error.message # "" THEN error.message ELSE "An unknown error occurred")

\* A backoff that does not grow.
backoffDelay_Constant(attempt) == baseDelay

\* The delay withRetry sleeps after failed attempt number `attempt`.
backoffDelay(attempt) == baseDelay * Pow2(attempt)

(***************************************************************************)
(* What the provider can answer.                                           *)
(***************************************************************************)
HostA == <<"a", ".", "e", "x">>
HostB == <<"b", ".", "e", "x">>
HostPrivate == <<"1", "0", ".", "0", ".", "0", ".", "5">>

RawX == [title |-> S(<<"X">>), url |-> Url("https:", <<"u">>, HostA, <<"/", "x">>, <<"f">>)]
RawY == [title |-> S(<<"Y">>), url |-> Url("https:", <<>>, HostA, <<"/", "y">>, <<>>)]
RawZ == [title |-> S(<<"X">>), url |-> Url("https:", <<>>, HostB, <<"/">>, <<>>)]
RawHttp == [title |-> S(<<"H">>), url |-> Url("http:", <<>>, HostB, <<"/">>, <<>>)]
RawPrivate == [title |-> S(<<"P">>), url |-> Url("https:", <<>>, HostPrivate, <<"/">>, <<>>)]
RawNoTitle == [title |-> Undef, url |-> Url("https:", <<>>, HostB, <<"/">>, <<>>)]
RawNoUrl == [title |-> S(<<"N">>), url |-> Undef]
RawBadUrl == [title |-> S(<<"B">>), url |-> S(<<"x", "y">>)]

\* Raw results of the search endpoint (the elements of response.results):
\* three that pass, one on http, one on a private address, one without
\* title, one without url, one whose url new URL() rejects.
RawResults == {RawX, RawHttp, RawPrivate, RawNoTitle, RawNoUrl, RawBadUrl, RawY, RawZ}

\* Errors axios rejects with.
UpstreamErrors ==
    { [code |-> "ERR_BAD_REQUEST", status |-> 400, message |-> "Request failed with status code 400"],
      [code |-> "ERR_BAD_REQUEST", status |-> 429, message |-> "Request failed with status code 429"],
      [code |-> "ENOTFOUND", status |-> 0, message |-> "getaddrinfo ENOTFOUND api.perplexity.ai"],
      [code |-> "", status |-> 0, message |-> "You exceeded your current quota"] }

\* Citations of the answer endpoint: one whose url new URL() rejects, one
\* without title and url, one on a private address, one that passes.
CiteC == [title |-> S(<<"C">>), url |-> S(<<"x", "y">>), snippet |-> Undef]
CiteEmpty == [title |-> Undef, url |-> Undef, snippet |-> Undef]
CitePrivate == [title |-> S(<<"P">>), url |-> RawPrivate.url, snippet |-> S(<<"s">>)]
CiteGood == [title |-> S(<<"Y">>), url |-> RawY.url, snippet |-> S(<<"s">>)]

\* Bodies of a 2xx answer of the answer endpoint: nothing, an object without
\* the three fields, and objects with them.
SonarResponses ==
    {Undef, [t |-> "object", citations |-> Undef, highlights |-> Undef, clusters |-> Undef]}
    \cup { [t |-> "object", citations |-> A(cs),
            highlights |-> A(<<S(<<"h">>), N(1)>>), clusters |-> A(<<>>)] :
            cs \in {<<>>, <<CiteGood>>, <<CiteC>>, <<CiteEmpty, CiteGood>>,
                    <<CiteGood, CitePrivate>>} }

(***************************************************************************)
(* Answer normalisation.                                                   *)
(***************************************************************************)
RECURSIVE mapCitations(_)
mapCitations(cs) ==
    IF cs = <<>> THEN <<>>
    ELSE <<[title |-> OrElse(Head(cs).title, S(<<>>)),
            url |-> OrElse(Head(cs).url, S(<<>>)),
            snippet |-> OrElse(Head(cs).snippet, S(<<>>))]>> \o mapCitations(Tail(cs))

\* normalizeSonarResults(sonarResult): every field of the result is an array.
normalizeSonarResults(sonarResult) ==
    IF ~Truthy(sonarResult)
    THEN [citations |-> A(<<>>), highlights |-> A(<<>>), clusters |-> A(<<>>)]
    ELSE [citations |-> IF sonarResult.citations.t = "array"
                        THEN A(mapCitations(sonarResult.citations.a)) ELSE A(<<>>),
          highlights |-> IF sonarResult.highlights.t = "array"
                         THEN A(SelectSeq(sonarResult.highlights.a, LAMBDA h : h.t = "string"))
                         ELSE A(<<>>),
          clusters |-> IF sonarResult.clusters.t = "array"
                       THEN sonarResult.clusters ELSE A(<<>>)]

(***************************************************************************)
(* State.                                                                  *)
(***************************************************************************)
VARIABLES
    now,        \* Date.now()
    env,        \* what getEnv() yields for the credential
    requests,   \* RateLimiter.requests
    cache,      \* Cache.cache
    calls,      \* per caller: the search() / generateAnswer() call it is in
    net,        \* per caller: its upstream requests in flight
    probe       \* the function applied on its own, with its input and result;
                \* under Spec, the time the cleanup interval is
                \* next due

vars == <<now, env, requests, cache, calls, net, probe>>

\* No function is being applied on its own.
NoProbe == [fn |-> "none"]

\* Cache constructor, startCleanupInterval(): the interval is armed at import
\* and first due one period later.
Armed == [fn |-> "none", nextSweep |-> cleanupIntervalMs]

NoOutcome == [status |-> "none"]
Resolved(value) == [status |-> "ok", value |-> value]
Rejected(error) == [status |-> "error", error |-> error]

\* A caller that is in no call.  issued, sleeps, timeouts, hit, failedIn and
\* before record what the call has done so far: upstream requests issued and
\* backoff sleeps of the current withRetry, attempts of it the timer ended,
\* whether the cache lookup returned an entry, the step at which the call
\* failed, and the cache and the limiter as the call found them.  did lists,
\* in the order of the statements of searchWeb, what the search of the call has
\* done: its calls of the limiter and the cache, the response and the return.
IdleCall ==
    [pc |-> "idle", op |-> "none", phase |-> "none", params |-> BaseParams,
     attempt |-> 0, startTime |-> 0, deadline |-> 0, evidence |-> Null,
     outcome |-> NoOutcome, issued |-> 0, sleeps |-> 0, timeouts |-> 0,
     hit |-> FALSE, failedIn |-> "none", did |-> <<>>,
     before |-> [cache |-> <<>>, requests |-> <<>>, at |-> 0]]

\* The record of a call of entry point op with params, started now.
NewCall(op, params) ==
    [IdleCall EXCEPT !.op = op, !.params = params,
                     !.before = [cache |-> cache, requests |-> requests, at |-> now]]

\* What the environment holds for a numeric setting: nothing, the empty
\* string, text, zero, a negative number, a number, a number followed by text.
SettingInputs ==
    {Undef, S(<<>>), S(<<"a", "b", "c">>), S(<<"0">>), S(<<"-", "5">>), S(<<"7">>),
     S(<<"7", "x">>)}

\* process.env merged with the .env files: the key of the GLM service, the
\* key of the search service, and the WEB_SEARCH_* settings (every one of
\* them holding the same value).
ProcessEnvs ==
    { [GLM_API_KEY |-> g, PERPLEXITY_API_KEY |-> k, WEB_SEARCH |-> v] :
        g \in {Undef, S(<<"g">>)}, k \in {Undef, S(<<"k">>)}, v \in SettingInputs }

MsgNoGlmKey == "GLM_API_KEY environment variable is required"

\* A getEnv that also returns the request timeout setting.
getEnv_ReturnsTimeout(envConfig) ==
    IF ~Truthy(envConfig.GLM_API_KEY)
    THEN [threw |-> TRUE, error |-> PlainError(MsgNoGlmKey)]
    ELSE [threw |-> FALSE,
          value |-> [t |-> "object", GLM_API_KEY |-> envConfig.GLM_API_KEY,
                     WEB_SEARCH_TIMEOUT_MS |-> envConfig.WEB_SEARCH]]

\* getEnv(): throws without GLM_API_KEY; otherwise an object of the GLM_* and
\* SIYUAN_* fields, of which the web search reads none.  Neither
\* PERPLEXITY_API_KEY nor any WEB_SEARCH_* setting is copied into it, and the
\* argument the RateLimiter and the Cache pass is ignored.
getEnv(envConfig) ==
    IF ~Truthy(envConfig.GLM_API_KEY)
    THEN [threw |-> TRUE, error |-> PlainError(MsgNoGlmKey)]
    ELSE [threw |-> FALSE,
          value |-> [t |-> "object", GLM_API_KEY |-> envConfig.GLM_API_KEY]]

\* obj[name]: undefined when the object has no such property.
Prop(obj, name) == IF name \in DOMAIN obj THEN obj[name] ELSE Undef

\* searchWeb and generateAnswerWithSonar, `const env = getEnv()`: what the
\* object holds for the credential they test.
EnvOf(e) == [PERPLEXITY_API_KEY |-> Truthy(Prop(e, "PERPLEXITY_API_KEY"))]

\* The environments under which the module loads (its RateLimiter and Cache
\* are constructed at import, and their constructors call getEnv).
LoadedEnvs == {EnvOf(getEnv(pe).value) : pe \in {q \in ProcessEnvs : ~getEnv(q).threw}}

\* The state after import: the limiter and the cache empty, the cleanup
\* interval armed, no call under way.
Init ==
    /\ now = 0
    /\ env \in LoadedEnvs
    /\ requests = <<>>
    /\ cache = <<>>
    /\ calls = [p \in Procs |-> IdleCall]
    /\ net = [p \in Procs |-> [live |-> FALSE, abandoned |-> 0]]
    /\ probe = Armed

\* The call has failed: the promise of the entry point rejects with error.
Fail(c, error, where) ==
    [c EXCEPT !.pc = "done", !.outcome = Rejected(error), !.failedIn = where]

\* withRetry starts attempt c.attempt: withTimeout arms its timer and the
\* operation posts the request.
StartAttempt(c, phase, attempt, t) ==
    [c EXCEPT !.pc = "upstream", !.phase = phase, !.attempt = attempt,
              !.deadline = t + timeoutMs, !.issued = @ + 1]

\* generateAnswerWithSonar, lines 42-62: after the evidence search returned.
\* The call record afterwards (failed, or waiting for the answer endpoint).
answerContinue(c, searchResults, t) ==
    IF ~env.PERPLEXITY_API_KEY THEN Fail(c, PlainError(MsgNoKey), "credential")
    ELSE IF ~Truthy(c.params.sonar_model) THEN Fail(c, PlainError(MsgNoModel), "model")
    ELSE [StartAttempt(c, "sonar", 0, t) EXCEPT
              !.evidence = searchResults, !.startTime = t,
              !.issued = 1, !.sleeps = 0, !.timeouts = 0]

\* searchWeb, lines 86-169: the synchronous prefix of the call, up to the
\* await of the upstream request.  c is the record of the call being started.
searchBegin(c, reqs, m, t) ==
    LET cl == checkLimit(reqs, t)
        g == cacheGet(m, createCacheKey(c.params), t)
        c1 == [c EXCEPT !.did = <<"checkLimit">>]
        c2 == [c EXCEPT !.did = <<"checkLimit", "cache.get">>]
    IN IF ~cl.allowed
       THEN [call |-> Fail(c1, PlainError(MsgRateLimit), "limit"),
             requests |-> cl.requests, cache |-> m]
       ELSE IF Truthy(g.value)
       THEN [call |-> [c2 EXCEPT !.pc = "done", !.hit = TRUE, !.did = Append(@, "return"),
                                 !.outcome = Resolved([g.value EXCEPT !.meta.cache_hit = TRUE])],
             requests |-> cl.requests, cache |-> g.cache]
       ELSE IF ~env.PERPLEXITY_API_KEY
       THEN [call |-> Fail(c2, PlainError(MsgNoKey), "credential"),
             requests |-> cl.requests, cache |-> g.cache]
       ELSE [call |-> [StartAttempt(c2, "search", 0, t) EXCEPT !.startTime = t],
             requests |-> cl.requests, cache |-> g.cache]

\* The wire of caller p after a step that leaves its call in record c: the
\* request the call waits for is in flight exactly while it is at "upstream".
Wire(w, c) == [w EXCEPT !.live = (c.pc = "upstream")]

(***************************************************************************)
(* Actions.                                                                *)
(***************************************************************************)
\* A caller invokes search(params).
SearchCall(p) ==
    /\ calls[p].pc = "idle"
    /\ \E params \in ParamSets :
         LET c0 == NewCall("search", params)
             r == searchBegin(c0, requests, cache, now)
         IN /\ calls' = [calls EXCEPT ![p] = r.call]
            /\ requests' = r.requests
            /\ cache' = r.cache
            /\ net' = [net EXCEPT ![p] = Wire(@, r.call)]
    /\ UNCHANGED <<now, env, probe>>

\* A continuation of generateAnswerWithSonar is queued: the searchWeb it
\* awaits has settled within the call of the entry point.
MicrotaskPending == \E p \in Procs : calls[p].pc = "settled"

\* A caller invokes generateAnswer(params): the synchronous part of the
\* evidence search runs.  When searchWeb settles in it (a cache hit, a
\* refusal, a missing credential) the await still yields: what follows the
\* await runs in a later microtask.
AnswerCall(p) ==
    /\ calls[p].pc = "idle"
    /\ \E params \in ParamSets :
         LET c0 == NewCall("answer", params)
             r == searchBegin(c0, requests, cache, now)
             c1 == IF r.call.pc = "done" THEN [r.call EXCEPT !.pc = "settled"] ELSE r.call
         IN /\ calls' = [calls EXCEPT ![p] = c1]
            /\ requests' = r.requests
            /\ cache' = r.cache
            /\ net' = [net EXCEPT ![p] = Wire(@, c1)]
    /\ UNCHANGED <<now, env, probe>>

\* generateAnswerWithSonar resumes after `await searchWeb(params)`: with the
\* evidence it goes on to the credential, the model and the escalation
\* request; a rejection passes through its catch block to the caller.
AnswerResume(p) ==
    /\ calls[p].pc = "settled"
    /\ LET c == calls[p]
           c1 == IF c.outcome.status = "ok"
                 THEN answerContinue([c EXCEPT !.outcome = NoOutcome], c.outcome.value, now)
                 ELSE [c EXCEPT !.pc = "done"]
       IN /\ calls' = [calls EXCEPT ![p] = c1]
          /\ net' = [net EXCEPT ![p] = Wire(@, c1)]
    /\ UNCHANGED <<now, env, requests, cache, probe>>

\* The caller has taken the result of its call; what the call left on the wire
\* is followed no further.
Return(p) ==
    /\ calls[p].pc = "done"
    /\ calls' = [calls EXCEPT ![p] = IdleCall]
    /\ net' = [net EXCEPT ![p].abandoned = 0]
    /\ UNCHANGED <<now, env, requests, cache, probe>>

\* The callback of the cleanup interval runs, at or after the time it is
\* due: every expired entry is deleted, and the next run is due one period
\* after this one (a due time past the end of the clock is kept as the first
\* instant past it).
CacheCleanup ==
    /\ ~MicrotaskPending
    /\ now >= probe.nextSweep
    /\ cache' = cacheCleanup(cache, now)
    /\ probe' = [probe EXCEPT !.nextSweep = IF now + cleanupIntervalMs > MaxTime THEN MaxTime + 1
                                         ELSE now + cleanupIntervalMs]
    /\ UNCHANGED <<now, env, requests, calls, net>>

\* Time passes; a queued continuation runs first.
Tick ==
    /\ ~MicrotaskPending
    /\ now < MaxTime
    /\ now' = now + 1
    /\ UNCHANGED <<env, requests, cache, calls, net, probe>>

\* The steps of the client as the repository links it: getEnv never holds the
\* credential, so no call gets past the credential check and nothing is
\* posted.  Two callers, whose calls may start within one turn of the event
\* loop.
Next ==
    \/ \E p \in Procs : SearchCall(p)
    \/ \E p \in Procs : AnswerCall(p)
    \/ \E p \in Procs : AnswerResume(p)
    \/ \E p \in Procs : Return(p)
    \/ CacheCleanup
    \/ Tick

Spec == Init /\ [][Next]_vars

(***************************************************************************)
(* withRetry(() => withTimeout(operation, timeoutMs)) on its own, for an   *)
(* operation that settles with any value or error at any time.  probe      *)
(* holds the withRetry call: its position, and one record per attempt with *)
(* the promise withTimeout returned, its timer and the operation.          *)
(***************************************************************************)
OperationValues == {"v"}
OperationErrors == UpstreamErrors

\* withTimeout, lines 105-114: the promise is created and the timer armed;
\* line 116: the operation is invoked.
withTimeoutStart(t) ==
    [started |-> t, deadline |-> t + timeoutMs, timer |-> "armed",
     operation |-> NoOutcome, promise |-> NoOutcome]

\* A then/catch callback that leaves the timer armed.
withTimeoutSettle_KeepsTimer(a, outcome) ==
    [a EXCEPT !.operation = outcome,
              !.promise = IF a.promise = NoOutcome THEN outcome ELSE a.promise]

\* withTimeout, lines 117-124: the operation settles; clearTimeout, then
\* resolve / reject, which settle the promise only if it is still pending.
withTimeoutSettle(a, outcome) ==
    [a EXCEPT !.operation = outcome,
              !.timer = IF a.timer = "armed" THEN "cleared" ELSE a.timer,
              !.promise = IF a.promise = NoOutcome THEN outcome ELSE a.promise]

\* A timer that fires without rejecting: the attempt goes on waiting for its
\* operation.
withTimeoutFire_KeepsWaiting(a) ==
    [a EXCEPT !.timer = "fired"]

\* withTimeout, lines 107-113: the timer fires and rejects.
withTimeoutFire(a) ==
    [a EXCEPT !.timer = "fired",
              !.promise = IF a.promise = NoOutcome THEN Rejected(TimeoutError)
                          ELSE a.promise]

\* withRetry, lines 60-62: attempt number `attempt` invokes the operation.
withRetryAttempt(r, t) ==
    [r EXCEPT !.pc = "attempt", !.attempts = Append(@, withTimeoutStart(t))]

\* A catch block that rethrows at once an error of a non-transient class.
withRetryContinue_FailFast(r, t) ==
    LET attempt == Len(r.attempts) - 1
        settled == r.attempts[Len(r.attempts)].promise
    IN IF settled.status = "ok"
       THEN [r EXCEPT !.pc = "returned", !.outcome = settled]
       ELSE IF attempt = maxRetries
               \/ handleApiError(settled.error).code
                    \in {"INVALID_PARAMETERS", "RATE_LIMIT_EXCEEDED", "QUOTA_EXCEEDED"}
       THEN [r EXCEPT !.pc = "thrown", !.outcome = settled]
       ELSE [r EXCEPT !.pc = "sleep", !.failedAt = t,
                      !.wake = t + backoffDelay(attempt),
                      !.delays = Append(@, backoffDelay(attempt))]

\* A catch block that starts the next attempt without sleeping.
withRetryContinue_NoSleep(r, t) ==
    LET attempt == Len(r.attempts) - 1
        settled == r.attempts[Len(r.attempts)].promise
    IN IF settled.status = "ok"
       THEN [r EXCEPT !.pc = "returned", !.outcome = settled]
       ELSE IF attempt = maxRetries
       THEN [r EXCEPT !.pc = "thrown", !.outcome = settled]
       ELSE withRetryAttempt([r EXCEPT !.failedAt = t, !.wake = t,
                                       !.delays = Append(@, backoffDelay(attempt))], t)

\* withRetry, lines 62-88: the promise of the current attempt has settled.
\* A value is returned; an error is rethrown on the last attempt and slept
\* on otherwise.
withRetryContinue(r, t) ==
    LET attempt == Len(r.attempts) - 1
        settled == r.attempts[Len(r.attempts)].promise
    IN IF settled.status = "ok"
       THEN [r EXCEPT !.pc = "returned", !.outcome = settled]
       ELSE IF attempt = maxRetries
       THEN [r EXCEPT !.pc = "thrown", !.outcome = settled]
       ELSE [r EXCEPT !.pc = "sleep", !.failedAt = t,
                      !.wake = t + backoffDelay(attempt),
                      !.delays = Append(@, backoffDelay(attempt))]

\* The current attempt of the withRetry call r is attempt i.
IsCurrent(r, i) == r.pc = "attempt" /\ i = Len(r.attempts)

\* The withRetry call after attempt record i became a: when it is the attempt
\* withRetry awaits and its promise has settled, withRetry goes on.
AfterAttempt(r, i, a, t) ==
    LET r1 == [r EXCEPT !.attempts[i] = a]
    IN IF IsCurrent(r, i) /\ a.promise # NoOutcome THEN withRetryContinue(r1, t) ELSE r1

InitRetry ==
    /\ now = 0
    /\ env \in LoadedEnvs
    /\ requests = <<>>
    /\ cache = <<>>
    /\ calls = [p \in Procs |-> IdleCall]
    /\ net = [p \in Procs |-> [live |-> FALSE, abandoned |-> 0]]
    /\ probe = NoProbe

\* withRetry is called: the first attempt starts at once.
WithRetryCall ==
    /\ probe = NoProbe
    /\ probe' = withRetryAttempt([fn |-> "withRetry", pc |-> "attempt", attempts |-> <<>>,
                                  failedAt |-> 0, wake |-> 0, delays |-> <<>>,
                                  outcome |-> NoOutcome], now)
    /\ UNCHANGED <<now, env, requests, cache, calls, net>>

\* The operation of attempt i resolves.
OperationResolves ==
    /\ probe.fn = "withRetry"
    /\ \E i \in 1..Len(probe.attempts), v \in OperationValues :
         /\ probe.attempts[i].operation = NoOutcome
         /\ probe' = AfterAttempt(probe, i, withTimeoutSettle(probe.attempts[i], Resolved(v)), now)
    /\ UNCHANGED <<now, env, requests, cache, calls, net>>

\* The operation of attempt i rejects.
OperationRejects ==
    /\ probe.fn = "withRetry"
    /\ \E i \in 1..Len(probe.attempts), e \in OperationErrors :
         /\ probe.attempts[i].operation = NoOutcome
         /\ probe' = AfterAttempt(probe, i, withTimeoutSettle(probe.attempts[i], Rejected(e)), now)
    /\ UNCHANGED <<now, env, requests, cache, calls, net>>

\* The timer of attempt i fires.
TimerFires ==
    /\ probe.fn = "withRetry"
    /\ \E i \in 1..Len(probe.attempts) :
         /\ probe.attempts[i].timer = "armed"
         /\ now >= probe.attempts[i].deadline
         /\ probe' = AfterAttempt(probe, i, withTimeoutFire(probe.attempts[i]), now)
    /\ UNCHANGED <<now, env, requests, cache, calls, net>>

\* The sleep of withRetry is over: the next attempt starts.
SleepEnds ==
    /\ probe.fn = "withRetry" /\ probe.pc = "sleep"
    /\ now >= probe.wake
    /\ probe' = withRetryAttempt(probe, now)
    /\ UNCHANGED <<now, env, requests, cache, calls, net>>

TickRetry ==
    /\ now < MaxTime
    /\ now' = now + 1
    /\ UNCHANGED <<env, requests, cache, calls, net, probe>>

NextRetry ==
    \/ WithRetryCall
    \/ OperationResolves
    \/ OperationRejects
    \/ TimerFires
    \/ SleepEnds
    \/ TickRetry

SpecRetry == InitRetry /\ [][NextRetry]_vars

(***************************************************************************)
(* The pure functions of the client, each applied on its own to inputs     *)
(* drawn from bounded sets.  probe holds the function applied, its input   *)
(* and its result.                                                         *)
(***************************************************************************)
\* The sequences over set of length at most n.
SeqsUpTo(set, n) == UNION {[1..k -> set] : k \in 0..n}

\* Normalised results: two on one host, one sharing a title with the first,
\* and two whose url new URL() rejects, one of them spelling a host name.
DedupeResults ==
    { [title |-> S(<<"X">>), url |-> Url("https:", <<>>, HostA, <<"/", "x">>, <<>>)],
      [title |-> S(<<"Y">>), url |-> Url("https:", <<>>, HostA, <<"/", "y">>, <<>>)],
      [title |-> S(<<"X">>), url |-> Url("https:", <<>>, HostB, <<"/">>, <<>>)],
      [title |-> S(<<"Z">>), url |-> S(HostA)],
      [title |-> S(<<"Y">>), url |-> S(<<"x", "y">>)] }

InitFn ==
    /\ now = 0
    /\ env \in LoadedEnvs
    /\ requests = <<>>
    /\ cache = <<>>
    /\ calls = [p \in Procs |-> IdleCall]
    /\ net = [p \in Procs |-> [live |-> FALSE, abandoned |-> 0]]
    /\ probe = NoProbe

\* deduplicateResults(results, strategy) is applied to a list.
Deduplicate ==
    /\ probe = NoProbe
    /\ \E results \in SeqsUpTo(DedupeResults, MaxResults), strategy \in {StrDomain, StrTitle} :
         probe' = [fn |-> "deduplicateResults", original |-> results, results |-> results,
                   strategy |-> strategy, times |-> 1,
                   out |-> deduplicateResults(results, strategy)]
    /\ UNCHANGED <<now, env, requests, cache, calls, net>>

\* deduplicateResults is applied to its own result.
DeduplicateAgain ==
    /\ probe.fn = "deduplicateResults" /\ probe.times = 1
    /\ probe' = [probe EXCEPT !.results = probe.out, !.times = 2,
                              !.out = deduplicateResults(probe.out, probe.strategy)]
    /\ UNCHANGED <<now, env, requests, cache, calls, net>>

\* normalizeResults(results) is applied to a list of raw results.
Normalize ==
    /\ probe = NoProbe
    /\ \E raw \in SeqsUpTo(RawResults, MaxResults) :
         probe' = [fn |-> "normalizeResults", raw |-> raw, out |-> normalizeResults(raw)]
    /\ UNCHANGED <<now, env, requests, cache, calls, net>>

\* normalizeSonarResults(sonarResult) is applied to a body of the answer
\* endpoint.
NormalizeSonar ==
    /\ probe = NoProbe
    /\ \E sonarResult \in SonarResponses :
         probe' = [fn |-> "normalizeSonarResults", sonarResult |-> sonarResult,
                   out |-> normalizeSonarResults(sonarResult)]
    /\ UNCHANGED <<now, env, requests, cache, calls, net>>

\* Raw errors: the code property ("" when there is none), the status of the
\* response (0 when there is no response) and the message.
RawErrorCodes ==
    {"", "ENOTFOUND", "EAI_AGAIN", "ETIMEDOUT", "ESOCKETTIMEDOUT", "ECONNRESET",
     "ERR_BAD_REQUEST", "TIMEOUT_ERROR"}
RawErrorStatuses == {0, 400, 401, 403, 404, 418, 429, 500, 502, 503, 504}
RawErrorMessages ==
    {"", "You exceeded your current quota", "Request failed", "Operation timed out"}

\* handleApiError(error) is applied to a raw error.
Classify ==
    /\ probe = NoProbe
    /\ \E code \in RawErrorCodes, status \in RawErrorStatuses, message \in RawErrorMessages :
         LET error == [code |-> code, status |-> status, message |-> message]
         IN probe' = [fn |-> "handleApiError", error |-> error, out |-> handleApiError(error)]
    /\ UNCHANGED <<now, env, requests, cache, calls, net>>

HostLoopback == <<"1", "2", "7", ".", "0", ".", "0", ".", "1">>
HostPublicIp == <<"8", ".", "8", ".", "8", ".", "8">>
HostExample == <<"e", "x", "a", "m", "p", "l", "e", ".", "c", "o", "m">>
PathRoot == <<"/">>
PathPath == <<"/", "p", "a", "t", "h">>

\* What isValidUrl is given: strings new URL() parses, over four schemes and
\* eight hosts, with and without userinfo, and values it rejects.
UrlInputs ==
    { u \in { Url(scheme, user, host, path, <<>>) :
                scheme \in {"https:", "http:", "ftp:", "file:"},
                user \in {<<>>, <<"u">>},
                host \in {HostLoopback, HostAwsMeta, HostPrivate, HostMetaGoogle,
                          HostExample, HostPublicIp, HostA, HostMetadata},
                path \in {PathRoot, PathPath} } :
        u.scheme = "file:" => u.user = <<>> }
    \cup {S(<<"x", "y">>), S(<<>>), Undef}

\* isValidUrl(urlString) is applied to a value.
Validate ==
    /\ probe = NoProbe
    /\ \E x \in UrlInputs :
         probe' = [fn |-> "isValidUrl", input |-> x, out |-> isValidUrl(x)]
    /\ UNCHANGED <<now, env, requests, cache, calls, net>>

\* Parameter sets for one query text: top_k, safe_mode, time_range and
\* operators each left out, given their default, or given another value.
KeyParams ==
    { [BaseParams EXCEPT !.top_k = k, !.safe_mode = sm, !.time_range = tr, !.operators = ops] :
        k \in {Undef, N(10), N(3)},
        sm \in {Undef, B(TRUE), B(FALSE)},
        tr \in {Undef, S(<<"a", "n", "y">>)},
        ops \in {Undef, A(<<>>), A(<<<<"b">>>>)} }

\* Parameter sets for one query text: lang, region and aggregate each left
\* out or given a value, lang and region the same one.
FieldParams ==
    { [BaseParams EXCEPT !.lang = lang, !.region = region, !.aggregate = aggregate] :
        lang \in {Undef, S(<<"f", "r">>)},
        region \in {Undef, S(<<"f", "r">>)},
        aggregate \in {Undef, B(TRUE)} }

\* createCacheKey(params) is applied to two parameter sets, next to the
\* payloads searchWeb builds from them.
DeriveKeys ==
    /\ probe = NoProbe
    /\ \E a \in KeyParams \cup FieldParams, b \in KeyParams \cup FieldParams :
         probe' = [fn |-> "createCacheKey", a |-> a, b |-> b,
                   keyA |-> createCacheKey(a), keyB |-> createCacheKey(b),
                   payloadA |-> buildPayload(a), payloadB |-> buildPayload(b)]
    /\ UNCHANGED <<now, env, requests, cache, calls, net>>

NaN == [t |-> "NaN"]

RECURSIVE SkipSpaces(_)
SkipSpaces(s) == IF s # <<>> /\ Head(s) = " " THEN SkipSpaces(Tail(s)) ELSE s

RECURSIVE LeadingDigits(_)
LeadingDigits(s) ==
    IF s # <<>> /\ IsDigit(Head(s)) THEN <<Head(s)>> \o LeadingDigits(Tail(s)) ELSE <<>>

\* parseInt(s, 10): leading spaces skipped, an optional sign, then the longest
\* run of digits; NaN when there is no digit.
parseInt(s) ==
    LET t == SkipSpaces(s)
        signed == t # <<>> /\ Head(t) \in {"-", "+"}
        ds == LeadingDigits(IF signed THEN Tail(t) ELSE t)
    IN IF ds = <<>> THEN NaN
       ELSE IF signed /\ Head(t) = "-" THEN N(0 - StrToNum(ds))
       ELSE N(StrToNum(ds))

isNaN(x) == x = NaN

DefaultLimit == 5
DefaultWindowMs == 1000
DefaultRetryAfterMs == 1000
DefaultTtlMinutes == 30
MsPerMinute == 60000
DefaultTimeoutMs == 10000

ObjectString ==
    <<"[", "o", "b", "j", "e", "c", "t", " ", "O", "b", "j", "e", "c", "t", "]">>

\* String(x), as parseInt applies it to its argument.
StringOf(x) == IF x.t = "object" THEN ObjectString ELSE x.s

\* RateLimiter constructor, one setting: parseInt(getEnv(name) || default, 10),
\* then the default again when the number is NaN or not positive.  e is what
\* getEnv(name) returned.
limiterSetting(e, default) ==
    LET parsed == parseInt(StringOf(OrElse(e, S(NumToStr(default)))))
    IN IF isNaN(parsed) \/ parsed.n <= 0 THEN N(default) ELSE parsed

\* Cache.parseTtlFromEnv(ttlStr): minutes to milliseconds, thirty minutes when
\* the number is NaN or not positive.
parseTtlFromEnv(ttlStr) ==
    LET minutes == parseInt(StringOf(ttlStr))
    IN IF isNaN(minutes) \/ minutes.n <= 0 THEN N(DefaultTtlMinutes * MsPerMinute)
       ELSE N(minutes.n * MsPerMinute)

\* Cache constructor: parseTtlFromEnv(getEnv(name) || '30').
cacheTtlSetting(e) ==
    parseTtlFromEnv(OrElse(e, S(NumToStr(DefaultTtlMinutes))))

\* makePerplexityRequest and makeSonarRequest:
\* parseInt(getEnv().WEB_SEARCH_TIMEOUT_MS || '10000', 10), handed to
\* withTimeout and to the transport as it is.
requestTimeoutSetting(e) ==
    parseInt(StringOf(OrElse(Prop(e, "WEB_SEARCH_TIMEOUT_MS"), S(NumToStr(DefaultTimeoutMs)))))

\* The module is imported under a process environment and a request function
\* reads its timeout: the constructors of the RateLimiter and the Cache throw
\* what getEnv throws, or take their settings from what it returns.
Configure ==
    /\ probe = NoProbe
    /\ \E pe \in ProcessEnvs :
         LET r == getEnv(pe)
         IN probe' =
              IF r.threw
              THEN [fn |-> "configure", processEnv |-> pe, setting |-> pe.WEB_SEARCH,
                    threw |-> TRUE, error |-> r.error]
              ELSE [fn |-> "configure", processEnv |-> pe, setting |-> pe.WEB_SEARCH,
                    threw |-> FALSE,
                    limit |-> limiterSetting(r.value, DefaultLimit),
                    windowMs |-> limiterSetting(r.value, DefaultWindowMs),
                    retryAfterMs |-> limiterSetting(r.value, DefaultRetryAfterMs),
                    defaultTtl |-> cacheTtlSetting(r.value),
                    timeout |-> requestTimeoutSetting(r.value)]
    /\ UNCHANGED <<now, env, requests, cache, calls, net>>

NextFn ==
    \/ Deduplicate
    \/ DeduplicateAgain
    \/ Normalize
    \/ NormalizeSonar
    \/ Classify
    \/ Validate
    \/ DeriveKeys
    \/ Configure

SpecFn == InitFn /\ [][NextFn]_vars

\* IPv4 addresses around the ends of every forbidden range, as octets.
AddressInputs ==
    {0, 1, 9, 10, 11, 100, 126, 127, 128, 169, 172, 191, 192, 198, 203, 223, 224,
     239, 240, 255}
    \X {0, 15, 16, 31, 32, 51, 63, 64, 127, 128, 168, 254, 255}
    \X {0, 2, 3, 100, 113, 255}
    \X {0, 255}

\* url.hostname of a URL whose host is the IPv4 address o.
HostOf(o) == Join(<<NumToStr(o[1]), NumToStr(o[2]), NumToStr(o[3]), NumToStr(o[4])>>, <<".">>)

\* isIPInRange is applied to an address and each forbidden range, and
\* isForbiddenIP and isValidUrl to the https URL on that address.
CheckAddress ==
    /\ probe = NoProbe
    /\ \E o \in AddressInputs :
         probe' = [fn |-> "isIPInRange", octets |-> o, ipInt |-> IpToInt(o),
                   inRange |-> [r \in 1..Len(FORBIDDEN_IP_RANGES) |->
                                  isIPInRange(IpToInt(o), FORBIDDEN_IP_RANGES[r])],
                   forbidden |-> isForbiddenIP(HostOf(o)),
                   valid |-> isValidUrl(Url("https:", <<>>, HostOf(o), PathRoot, <<>>))]
    /\ UNCHANGED <<now, env, requests, cache, calls, net>>

NextAddr == CheckAddress

\* The address checks applied to one address.
SpecAddr == InitFn /\ [][NextAddr]_vars

(***************************************************************************)
(* The RateLimiter on its own: its methods called in any order at any      *)
(* time.  probe holds the last call (its name, its time, the sequence it   *)
(* found and what it returned) and the waitUntilAllowed() under way.       *)
(***************************************************************************)
NoStatus == [current |-> 0, limit |-> limit, windowMs |-> windowMs,
             isAllowed |-> TRUE, timeToWait |-> 0]

\* No waitUntilAllowed() has been called.  Otherwise: since is the time of
\* the call, waitTime what getTimeToWait() last returned to it, wake the end
\* of its sleep, incremented whether increment() ran since the call.
IdleWait == [pc |-> "idle", since |-> 0, waitTime |-> 0, wake |-> 0, incremented |-> FALSE]

\* The record of a call of method `last` at time t that found reqs.
Called(last, t, reqs, allowed, timeToWait, status, wait) ==
    [fn |-> "RateLimiter", last |-> last, at |-> t, before |-> reqs,
     allowed |-> allowed, timeToWait |-> timeToWait, status |-> status, wait |-> wait]

InitLimiter ==
    /\ now = 0
    /\ env \in LoadedEnvs
    /\ requests = <<>>
    /\ cache = <<>>
    /\ calls = [p \in Procs |-> IdleCall]
    /\ net = [p \in Procs |-> [live |-> FALSE, abandoned |-> 0]]
    /\ probe = Called("none", 0, <<>>, TRUE, 0, NoStatus, IdleWait)

CheckLimit ==
    /\ LET r == checkLimit(requests, now)
       IN /\ requests' = r.requests
          /\ probe' = Called("checkLimit", now, requests, r.allowed, 0, NoStatus, probe.wait)
    /\ UNCHANGED <<now, env, cache, calls, net>>

Increment ==
    /\ Len(requests) < MaxRequests
    /\ requests' = increment(requests, now)
    /\ probe' = Called("increment", now, requests, TRUE, 0, NoStatus,
                       [probe.wait EXCEPT !.incremented = @ \/ probe.wait.pc = "sleeping"])
    /\ UNCHANGED <<now, env, cache, calls, net>>

GetTimeToWait ==
    /\ LET r == getTimeToWait(requests, now)
       IN /\ requests' = r.requests
          /\ probe' = Called("getTimeToWait", now, requests, TRUE, r.value, NoStatus, probe.wait)
    /\ UNCHANGED <<now, env, cache, calls, net>>

GetStatus ==
    /\ LET r == getStatus(requests, now)
       IN /\ requests' = r.requests
          /\ probe' = Called("getStatus", now, requests, TRUE, 0, r.value, probe.wait)
    /\ UNCHANGED <<now, env, cache, calls, net>>

Reset ==
    /\ requests' = reset(requests)
    /\ probe' = Called("reset", now, requests, TRUE, 0, NoStatus, probe.wait)
    /\ UNCHANGED <<now, env, cache, calls, net>>

\* waitUntilAllowed() is called: getTimeToWait(), then the first sleep or the
\* return.  A call is started only while the clock can still run past the
\* window and one sleep.
WaitUntilAllowed ==
    /\ probe.wait.pc # "sleeping"
    /\ now + windowMs + pollMs <= LimiterMaxTime
    /\ LET r == waitUntilAllowedStep(requests, now)
       IN /\ requests' = r.requests
          /\ probe' = Called("waitUntilAllowed", now, requests, TRUE, 0, NoStatus,
                             [pc |-> r.pc, since |-> now, waitTime |-> r.waitTime,
                              wake |-> r.wake, incremented |-> FALSE])
    /\ UNCHANGED <<now, env, cache, calls, net>>

\* The sleep of waitUntilAllowed() is over: getTimeToWait() again.
WaitWake ==
    /\ probe.wait.pc = "sleeping"
    /\ now >= probe.wait.wake
    /\ LET r == waitUntilAllowedStep(requests, now)
       IN /\ requests' = r.requests
          /\ probe' = Called("waitUntilAllowed", now, requests, TRUE, 0, NoStatus,
                             [probe.wait EXCEPT !.pc = r.pc, !.waitTime = r.waitTime,
                                                !.wake = r.wake])
    /\ UNCHANGED <<now, env, cache, calls, net>>

TickLimiter ==
    /\ now < LimiterMaxTime
    /\ now' = now + 1
    /\ UNCHANGED <<env, requests, cache, calls, net, probe>>

NextLimiter ==
    \/ CheckLimit
    \/ Increment
    \/ GetTimeToWait
    \/ GetStatus
    \/ Reset
    \/ WaitUntilAllowed
    \/ WaitWake
    \/ TickLimiter

SpecLimiter == InitLimiter /\ [][NextLimiter]_vars

\* Time advances and a sleep that is over ends.
SpecLimiterFair == SpecLimiter /\ WF_vars(TickLimiter) /\ WF_vars(WaitWake)

(***************************************************************************)
(* The Cache on its own: its methods called with any key at any time, and  *)
(* the callback of its cleanup interval.  probe holds the last call (its   *)
(* name, arguments and value, and the keys it removed) and the time at     *)
(* which the interval is due next.                                         *)
(***************************************************************************)
KeyA == <<"a">>
KeyB == <<"b">>
CacheKeys == {KeyA, KeyB}
CacheData == {S(<<"x">>), S(<<"y">>)}

\* The third argument of set(): left out, 0, or a time shorter than
\* defaultTtl.
TtlArgs == {Undef, N(0), N(defaultTtl - 1)}

CacheCalled(last, key, data, ttl, value, removed, nextSweep) ==
    [fn |-> "Cache", last |-> last, key |-> key, data |-> data, ttl |-> ttl,
     value |-> value, removed |-> removed, nextSweep |-> nextSweep]

\* The constructor: an empty Map, the interval started.
InitCache ==
    /\ now = 0
    /\ env \in LoadedEnvs
    /\ requests = <<>>
    /\ cache = <<>>
    /\ calls = [p \in Procs |-> IdleCall]
    /\ net = [p \in Procs |-> [live |-> FALSE, abandoned |-> 0]]
    /\ probe = CacheCalled("none", KeyA, Null, Undef, Null, {}, cleanupIntervalMs)

\* set(key, data, ttl).  An entry is written only while the clock can still
\* run past its expiry and one more period of the interval.
SetEntry ==
    /\ \E k \in CacheKeys, data \in CacheData, ttl \in TtlArgs :
         /\ cache' = cacheSet(cache, k, data, ttl, now)
         /\ now + cache'[k].ttl + cleanupIntervalMs <= CacheMaxTime
         /\ probe' = CacheCalled("set", k, data, ttl, Null, {}, probe.nextSweep)
    /\ UNCHANGED <<now, env, requests, calls, net>>

\* get(key)
GetEntry ==
    /\ \E k \in CacheKeys :
         LET g == cacheGet(cache, k, now)
         IN /\ cache' = g.cache
            /\ probe' = CacheCalled("get", k, Null, Undef, g.value,
                                    (DOMAIN cache) \ (DOMAIN cache'), probe.nextSweep)
    /\ UNCHANGED <<now, env, requests, calls, net>>

\* delete(key)
DeleteEntry ==
    /\ \E k \in CacheKeys :
         /\ cache' = cacheDelete(cache, k)
         /\ probe' = CacheCalled("delete", k, Null, Undef, Null, {}, probe.nextSweep)
    /\ UNCHANGED <<now, env, requests, calls, net>>

\* clear()
ClearEntries ==
    /\ cache' = cacheClear(cache)
    /\ probe' = CacheCalled("clear", KeyA, Null, Undef, Null, {}, probe.nextSweep)
    /\ UNCHANGED <<now, env, requests, calls, net>>

\* The interval fires, at its due time or later, and is due again one period
\* after.
Sweep ==
    /\ now >= probe.nextSweep
    /\ cache' = cacheCleanup(cache, now)
    /\ probe' = CacheCalled("sweep", KeyA, Null, Undef, Null,
                            (DOMAIN cache) \ (DOMAIN cache'), now + cleanupIntervalMs)
    /\ UNCHANGED <<now, env, requests, calls, net>>

TickCache ==
    /\ now < CacheMaxTime
    /\ now' = now + 1
    /\ UNCHANGED <<env, requests, cache, calls, net, probe>>

NextCache ==
    \/ SetEntry
    \/ GetEntry
    \/ DeleteEntry
    \/ ClearEntries
    \/ Sweep
    \/ TickCache

SpecCache == InitCache /\ [][NextCache]_vars

\* Time advances and the interval, once due, fires.
SpecCacheFair == SpecCache /\ WF_vars(TickCache) /\ WF_vars(Sweep)

(***************************************************************************)
(* Claims.                                                                 *)
(***************************************************************************)
\* The step starts a call of caller p.
Starts(p) == calls[p].pc = "idle" /\ calls'[p].pc # "idle"

\* The key of the call p is in after the step.
KeyOf(c) == createCacheKey(c.params)

\* C3: within one window checkLimit() answers true exactly while fewer than
\* limit timestamps are recorded; it never adds a timestamp, and called
\* again with no increment() in between it gives the same answer and leaves
\* the recorded timestamps as they are.
C3_CheckLimit ==
    [][(probe'.last = "checkLimit") =>
         LET b == probe'.before
             t == probe'.at
         IN /\ (\A i \in 1..Len(b) : t - b[i] < windowMs)
               => /\ probe'.allowed <=> (Len(b) < limit)
                  /\ requests' = b
                  /\ (probe.last = "checkLimit")
                     => (probe'.allowed = probe.allowed /\ requests' = requests)
            /\ Len(requests') <= Len(b)
            /\ \A i \in 1..Len(requests') : \E j \in 1..Len(b) : requests'[i] = b[j]]_vars

\* checkLimit() refused: limit timestamps were recorded and none had expired.
C3_Witness ==
    /\ probe.last = "checkLimit" /\ ~probe.allowed
    /\ Len(probe.before) = limit
    /\ \A i \in 1..Len(probe.before) : probe.at - probe.before[i] < windowMs
    /\ requests = probe.before

\* C5: get(key) returns the stored data iff now - timestamp <= ttl and then
\* leaves the cache as it is; for an entry older than its ttl it returns
\* none and removes that entry and no other; for an absent key it returns
\* none; and a key enters the cache by set() only.
C5_CacheGet ==
    [][/\ (now' = now /\ probe'.last = "get") =>
            LET k == probe'.key
            IN /\ (k \in DOMAIN cache /\ now - cache[k].timestamp <= cache[k].ttl)
                  => (probe'.value = cache[k].data /\ cache' = cache)
               /\ (k \in DOMAIN cache /\ now - cache[k].timestamp > cache[k].ttl)
                  => /\ probe'.value = Null
                     /\ DOMAIN cache' = (DOMAIN cache) \ {k}
                     /\ \A j \in DOMAIN cache' : cache'[j] = cache[j]
               /\ (k \notin DOMAIN cache) => (probe'.value = Null /\ cache' = cache)
       /\ ((DOMAIN cache') \ (DOMAIN cache) # {}) => (probe'.last = "set")]_vars

\* A get() found its entry older than its ttl, returned none and removed it,
\* while the entry of the other key stayed.
C5_Witness ==
    /\ probe.last = "get" /\ probe.value = Null
    /\ probe.removed = {probe.key}
    /\ DOMAIN cache = CacheKeys \ {probe.key}

\* C6: generateAnswer() without sonar_model rejects with INVALID_PARAMETERS
\* before any network activity: it posts nothing, and the cache and the
\* limiter are as the call found them.
C6_NoModelRejectsFirst ==
    \A p \in Procs :
        (calls[p].op = "answer" /\ ~Truthy(calls[p].params.sonar_model))
        => /\ calls[p].issued = 0 /\ ~net[p].live
           /\ (calls[p].pc = "done")
              => /\ calls[p].outcome.status = "error"
                 /\ calls[p].outcome.error.code = "INVALID_PARAMETERS"
                 /\ cache = calls[p].before.cache
                 /\ requests = PruneRequests(calls[p].before.requests, calls[p].before.at)

\* C7: the error the timer of withTimeout rejects with reaches the caller
\* unchanged, with code TIMEOUT_ERROR, through the handleApiError every
\* upstream failure is passed to.
C7_TimeoutSurfaces ==
    (probe.fn = "handleApiError" /\ probe.error = TimeoutError)
    => (probe.out.code = "TIMEOUT_ERROR" /\ probe.out.message = probe.error.message)

\* C9: every failure of search() or generateAnswer() is a WebSearchError with
\* a code of the fixed set and a message.
C9_FailuresAreWebSearchErrors ==
    \A p \in Procs :
        calls[p].outcome.status = "error"
        => /\ calls[p].outcome.error.code \in WebSearchErrorCode
           /\ calls[p].outcome.error.message # ""

NonTransientCodes == {"INVALID_PARAMETERS", "RATE_LIMIT_EXCEEDED", "QUOTA_EXCEEDED"}

\* Attempt i of the withRetry call r rejected with an error handleApiError
\* classes as a validation failure, a rate-limit refusal or a quota error.
NonTransientFailure(r, i) ==
    /\ r.attempts[i].promise.status = "error"
    /\ handleApiError(r.attempts[i].promise.error).code \in NonTransientCodes

\* C10 as stated: the retry loop around the upstream call gives up at the
\* first failure that is an HTTP 400, an HTTP 429 or a quota error, after one
\* invocation and without a backoff sleep.
C10_NonTransientNotRetried ==
    (probe.fn = "withRetry") =>
        \A i \in 1..Len(probe.attempts) :
            NonTransientFailure(probe, i)
            => /\ Len(probe.attempts) = 1
               /\ probe.pc = "thrown"
               /\ probe.delays = <<>>

\* C10, amended: the retry loop treats every failure alike.  A failed attempt
\* that is not the last one is followed by a backoff sleep and a further
\* attempt, whatever its error; the loop rejects only after maxRetries + 1
\* invocations and maxRetries sleeps.
C10_EveryFailureRetried ==
    (probe.fn = "withRetry") =>
        /\ \A i \in 1..Len(probe.attempts) :
               (probe.attempts[i].promise.status = "error" /\ i <= maxRetries)
               => \/ i < Len(probe.attempts)
                  \/ (i = Len(probe.attempts) /\ probe.pc = "sleep"
                      /\ Len(probe.delays) = i)
        /\ (probe.pc = "thrown")
           => (Len(probe.attempts) = maxRetries + 1 /\ Len(probe.delays) = maxRetries)

\* The loop rejected with an HTTP 400 after three invocations that all failed
\* with non-transient errors, and two sleeps.
C10_Witness ==
    /\ probe.fn = "withRetry" /\ probe.pc = "thrown"
    /\ \A i \in 1..Len(probe.attempts) : NonTransientFailure(probe, i)
    /\ handleApiError(probe.outcome.error).code = "INVALID_PARAMETERS"
    /\ Len(probe.attempts) = maxRetries + 1
    /\ probe.delays = <<baseDelay, baseDelay * 2>>

\* What C11 asks of the withRetry call r once it is under way.
RetryShape(r) ==
    LET n == Len(r.attempts)
        last == r.attempts[n]
    IN /\ n <= maxRetries + 1
       /\ \A i \in 1..(n - 1) : r.attempts[i].promise.status = "error"
       /\ Len(r.delays) = IF r.pc = "sleep" THEN n ELSE n - 1
       /\ \A k \in 1..Len(r.delays) : r.delays[k] = baseDelay * Pow2(k - 1)
       /\ (r.pc = "sleep") => (r.wake = r.failedAt + baseDelay * Pow2(n - 1))
       /\ (r.pc = "attempt" /\ n > 1)
          => (last.started >= r.failedAt + baseDelay * Pow2(n - 2))
       /\ (r.pc = "returned") => (last.promise.status = "ok" /\ r.outcome = last.promise)
       /\ (r.pc = "thrown")
          => (n = maxRetries + 1 /\ last.promise.status = "error"
              /\ r.outcome = last.promise /\ Len(r.delays) = maxRetries)

\* C11: withRetry invokes the operation at most maxRetries + 1 times, returns
\* the value of the first attempt that succeeds, sleeps baseDelay * 2^k after
\* failed attempt k < maxRetries, and after the last failed attempt rejects
\* with that attempt's error, without a sleep; the kind of error plays no part.
C11_WithRetry ==
    [][/\ probe'.fn = "withRetry" => RetryShape(probe')
       /\ (probe.fn = "withRetry" /\ probe.pc \in {"returned", "thrown"})
          => (/\ probe'.pc = probe.pc /\ probe'.outcome = probe.outcome
              /\ Len(probe'.attempts) = Len(probe.attempts)
              /\ probe'.delays = probe.delays)]_vars

\* All three attempts failed, the first and the last with different errors.
C11_Witness ==
    /\ probe.fn = "withRetry" /\ probe.pc = "thrown"
    /\ probe.attempts[1].promise # probe.attempts[maxRetries + 1].promise
    /\ probe.attempts[1].promise # Rejected(TimeoutError)
    /\ probe.outcome = probe.attempts[maxRetries + 1].promise

\* What C12 asks of the attempt record a of one withTimeout call.
TimeoutShape(a) ==
    /\ (a.promise = NoOutcome) <=> (a.timer = "armed")
    /\ (a.timer = "armed") => (a.operation = NoOutcome)
    /\ (a.timer = "fired") => (a.promise = Rejected(TimeoutError))
    /\ (a.timer = "cleared") => (a.operation # NoOutcome /\ a.promise = a.operation)

\* C12: the promise of withTimeout settles once, with whichever comes first:
\* the timer's TIMEOUT_ERROR, after which the operation runs on and its
\* outcome changes nothing, or the operation's own value or error, after
\* which the timer is cleared and cannot fire.
C12_WithTimeout ==
    [][(probe'.fn = "withRetry") =>
         /\ \A i \in 1..Len(probe'.attempts) : TimeoutShape(probe'.attempts[i])
         /\ (probe.fn = "withRetry") =>
              \A i \in 1..Len(probe.attempts) :
                  /\ (probe.attempts[i].promise # NoOutcome)
                     => (probe'.attempts[i].promise = probe.attempts[i].promise)
                  /\ (probe.attempts[i].timer # "armed")
                     => (probe'.attempts[i].timer = probe.attempts[i].timer)]_vars

\* The timer won and the operation resolved afterwards, unobserved.
C12_Witness ==
    /\ probe.fn = "withRetry"
    /\ \E i \in 1..Len(probe.attempts) :
         /\ probe.attempts[i].timer = "fired"
         /\ probe.attempts[i].operation.status = "ok"
         /\ probe.attempts[i].promise = Rejected(TimeoutError)
    /\ probe.outcome.status # "ok"

\* C13: a search() that starts while the key is absent and the limiter
\* admits it, another caller having started a search() on the same key in
\* the same instant, posts its own upstream request.
C13_NoSingleFlight ==
    [][\A p \in Procs :
         (/\ Starts(p) /\ calls'[p].op = "search"
          /\ KeyOf(calls'[p]) \notin DOMAIN cache
          /\ Len(PruneRequests(requests, now)) < limit
          /\ \E q \in Procs \ {p} :
               /\ calls[q].op = "search"
               /\ KeyOf(calls[q]) = KeyOf(calls'[p])
               /\ calls[q].before.at = now
               /\ KeyOf(calls[q]) \notin DOMAIN calls[q].before.cache)
         => (calls'[p].pc = "upstream" /\ calls'[p].issued = 1)]_vars

\* The raw result r has a title and a url, and its url, sanitised, passes
\* isValidUrl.
Passes(r) == Truthy(r.title) /\ Truthy(r.url) /\ isValidUrl(sanitizeUrl(r.url))

\* C14: every result normalizeResults returns has a non-empty title, a
\* non-empty url and a url isValidUrl accepts; the raw results without title
\* or url, or whose sanitised url fails, are dropped and the others are kept,
\* sanitised, in order; deduplication of the list, under either strategy,
\* returns results of that list only.
C14_ResultsAreValid ==
    (probe.fn = "normalizeResults") =>
        LET kept == SelectSeq(probe.raw, Passes)
        IN /\ \A i \in 1..Len(probe.out) :
                 /\ Truthy(probe.out[i].title)
                 /\ Truthy(probe.out[i].url)
                 /\ isValidUrl(probe.out[i].url)
           /\ Len(probe.out) = Len(kept)
           /\ \A i \in 1..Len(probe.out) :
                 /\ probe.out[i].title = kept[i].title
                 /\ probe.out[i].url = sanitizeUrl(kept[i].url)
           /\ \A strategy \in {StrDomain, StrTitle} :
                 LET final == deduplicateResults(probe.out, strategy)
                 IN \A i \in 1..Len(final) : \E j \in 1..Len(probe.out) : final[i] = probe.out[j]

\* Of three raw results the one with userinfo and fragment was kept,
\* sanitised, and the one on http and the one without url were dropped.
C14_Witness ==
    /\ probe.fn = "normalizeResults"
    /\ probe.raw = <<RawHttp, RawX, RawNoUrl>>
    /\ Len(probe.out) = 1
    /\ probe.out[1].url = sanitizeUrl(RawX.url) /\ probe.out[1].url # RawX.url

\* C15: deduplication is idempotent: applied to its own result, under the
\* same strategy, it returns that result.
C15_DedupeIdempotent ==
    [][(probe.fn = "deduplicateResults" /\ probe'.fn = "deduplicateResults")
       => (probe'.results = probe.out /\ probe'.out = probe.out)]_vars

\* The second application was given a list the first had shortened.
C15_Witness ==
    /\ probe.fn = "deduplicateResults" /\ probe.times = 2
    /\ Len(probe.results) < Len(probe.original)
    /\ Len(probe.out) = 2

\* The key C16 names: the host name of the parsed url, or the raw url when it
\* does not parse, for domain; the title for title.
StatedKey(result, strategy) ==
    IF strategy = StrDomain
    THEN IF result.url.t = "url" THEN S(result.url.host) ELSE result.url
    ELSE result.title

\* The place in list of the first result with the key of result r.
FirstWithKey(list, r, strategy) ==
    CHOOSE i \in 1..Len(list) :
        /\ StatedKey(list[i], strategy) = StatedKey(r, strategy)
        /\ \A j \in 1..(i - 1) : StatedKey(list[j], strategy) # StatedKey(r, strategy)

\* C16: the result of deduplication holds one result per key of the input,
\* namely the first that had the key, in the order of the input.
C16_DedupeKeepsFirst ==
    (probe.fn = "deduplicateResults") =>
        LET in == probe.results
            out == probe.out
            s == probe.strategy
        IN /\ \A i \in 1..Len(in) : \E k \in 1..Len(out) :
                StatedKey(out[k], s) = StatedKey(in[i], s)
           /\ \A k \in 1..Len(out) : \A l \in 1..Len(out) :
                (k # l) => StatedKey(out[k], s) # StatedKey(out[l], s)
           /\ \A k \in 1..Len(out) :
                /\ \E i \in 1..Len(in) : in[i] = out[k]
                /\ out[k] = in[FirstWithKey(in, out[k], s)]
           /\ \A k \in 1..Len(out) : \A l \in 1..Len(out) :
                (k < l) => FirstWithKey(in, out[k], s) < FirstWithKey(in, out[l], s)

\* Two results on one host with distinct titles, under domain: the first stays.
C16_Witness ==
    /\ probe.fn = "deduplicateResults" /\ probe.strategy = StrDomain
    /\ Len(probe.results) = 2
    /\ probe.results[1].url.t = "url" /\ probe.results[2].url.t = "url"
    /\ probe.results[1].url.host = probe.results[2].url.host
    /\ probe.results[1].url # probe.results[2].url
    /\ probe.results[1].title # probe.results[2].title
    /\ probe.out = <<probe.results[1]>>

\* C17: handleApiError gives NETWORK_ERROR for a DNS transport code and
\* TIMEOUT_ERROR for a timeout transport code, whatever else the error holds;
\* otherwise it maps a present HTTP status (400, 401/403, 429, the rest);
\* otherwise a message with "quota" gives QUOTA_EXCEEDED; otherwise API_ERROR.
\* The code is always one of the fixed set.
C17_Classification ==
    (probe.fn = "handleApiError") =>
        LET e == probe.error
            c == probe.out.code
            dns == e.code \in {"ENOTFOUND", "EAI_AGAIN"}
            timedOut == e.code \in {"ETIMEDOUT", "ESOCKETTIMEDOUT"}
            http == ~dns /\ ~timedOut /\ e.status # 0
            bare == ~dns /\ ~timedOut /\ e.status = 0
        IN /\ dns => c = "NETWORK_ERROR"
           /\ timedOut => c = "TIMEOUT_ERROR"
           /\ (http /\ e.status = 400) => c = "INVALID_PARAMETERS"
           /\ (http /\ e.status = 429) => c = "RATE_LIMIT_EXCEEDED"
           /\ (http /\ e.status \notin {400, 429}) => c = "API_ERROR"
           /\ (bare /\ IncludesQuota(e.message)) => c = "QUOTA_EXCEEDED"
           /\ (bare /\ ~IncludesQuota(e.message)) => c = "API_ERROR"
           /\ c \in WebSearchErrorCode

\* A DNS failure that also carries a 429 response and a quota message.
C17_Witness ==
    /\ probe.fn = "handleApiError"
    /\ probe.error.code = "ENOTFOUND" /\ probe.error.status = 429
    /\ IncludesQuota(probe.error.message)
    /\ probe.out.code = "NETWORK_ERROR"

\* C18: isValidUrl is false for every URL on 127.0.0.1, 169.254.169.254,
\* 10.0.0.5 or metadata.google.internal, false for every URL whose scheme is
\* not https, false for a string that does not parse, and true for
\* https://example.com/path.
C18_IsValidUrl ==
    (probe.fn = "isValidUrl") =>
        LET x == probe.input
        IN /\ probe.out \in BOOLEAN
           /\ (x.t = "url" /\ x.host \in {HostLoopback, HostAwsMeta, HostPrivate, HostMetaGoogle})
              => probe.out = FALSE
           /\ (x.t = "url" /\ x.scheme # "https:") => probe.out = FALSE
           /\ (x.t # "url") => probe.out = FALSE
           /\ (x = Url("https:", <<>>, HostExample, PathPath, <<>>)) => probe.out = TRUE

\* An https URL on 10.0.0.5 was refused.
C18_Witness ==
    /\ probe.fn = "isValidUrl"
    /\ probe.input.t = "url" /\ probe.input.scheme = "https:"
    /\ probe.input.host = HostPrivate
    /\ probe.out = FALSE

\* C19: two parameter sets that yield the same upstream query derive the
\* same cache key.
C19_SameQuerySameKey ==
    (probe.fn = "createCacheKey") =>
        ((probe.payloadA = probe.payloadB) => (probe.keyA = probe.keyB))

\* The attempts of the withRetry call r whose promise is still pending.
PendingAttempts(r) == {i \in 1..Len(r.attempts) : r.attempts[i].promise = NoOutcome}

\* C24: the attempts of one withRetry run follow one another.  At most one
\* attempt is pending at any time, and it is the latest; a further attempt
\* is started only during the sleep that followed the rejection of the
\* latest one, and not before baseDelay * 2^k has passed since attempt k
\* (counted from 0) rejected.
C24_AttemptsSequential ==
    [][(probe.fn = "withRetry" /\ probe'.fn = "withRetry")
       => LET n == Len(probe.attempts)
          IN /\ PendingAttempts(probe') \subseteq {Len(probe'.attempts)}
             /\ (PendingAttempts(probe') # {}) <=> (probe'.pc = "attempt")
             /\ Len(probe'.attempts) \in {n, n + 1}
             /\ Len(probe'.attempts) = n + 1
                => /\ probe.pc = "sleep"
                   /\ PendingAttempts(probe) = {}
                   /\ probe.attempts[n].promise.status = "error"
                   /\ now >= probe.failedAt + baseDelay * Pow2(n - 1)
                   /\ probe.failedAt >= probe.attempts[n].started
                   /\ probe'.attempts[n + 1].started = now
                   /\ SubSeq(probe'.attempts, 1, n) = probe.attempts]_vars

\* The third attempt is pending, the first two have rejected, and the
\* operation of the first, cut off by the timer, has still not settled.
C24_Witness ==
    /\ probe.fn = "withRetry" /\ probe.pc = "attempt"
    /\ Len(probe.attempts) = maxRetries + 1
    /\ PendingAttempts(probe) = {maxRetries + 1}
    /\ probe.attempts[1].promise = Rejected(TimeoutError)
    /\ probe.attempts[1].operation = NoOutcome
    /\ probe.attempts[2].promise.status = "error"
    /\ probe.attempts[maxRetries + 1].started
         >= probe.attempts[2].started + baseDelay * 2

\* The attempts of the withRetry call r whose operation (the upstream
\* request) has not settled.
UnsettledOperations(r) == {i \in 1..Len(r.attempts) : r.attempts[i].operation = NoOutcome}

\* C34 as stated: at most one operation of a withRetry call is unsettled at
\* any time; the operation of an attempt the timer abandoned has settled
\* before the next attempt invokes its own.
C34_OneRequestInFlight ==
    (probe.fn = "withRetry") => Cardinality(UnsettledOperations(probe)) <= 1

\* C34, amended: of the unsettled operations of a withRetry call at most one
\* is awaited, that of the current attempt, whose timer is still armed; every
\* other one belongs to an attempt its timer rejected with TIMEOUT_ERROR and
\* runs on unobserved, so up to maxRetries + 1 can be unsettled at once.
C34_OneRequestAwaited ==
    (probe.fn = "withRetry") =>
        /\ Cardinality(UnsettledOperations(probe)) <= maxRetries + 1
        /\ \A i \in UnsettledOperations(probe) :
               LET a == probe.attempts[i]
               IN \/ /\ a.promise = NoOutcome /\ a.timer = "armed"
                     /\ i = Len(probe.attempts) /\ probe.pc = "attempt"
                  \/ /\ a.promise = Rejected(TimeoutError) /\ a.timer = "fired"
                     /\ (i < Len(probe.attempts) \/ probe.pc # "attempt")

\* Three operations of one call are unsettled: those of the two attempts the
\* timer abandoned and that of the third attempt, the one awaited.
C34_Witness ==
    /\ probe.fn = "withRetry" /\ probe.pc = "attempt"
    /\ UnsettledOperations(probe) = 1..(maxRetries + 1)
    /\ \A i \in 1..maxRetries : probe.attempts[i].promise = Rejected(TimeoutError)
    /\ probe.attempts[maxRetries + 1].promise = NoOutcome

\* C36: every citation normalizeSonarResults returns, which generateAnswer()
\* hands on as the citations of its response, has a non-empty title, a
\* non-empty url, and a url isValidUrl accepts.
C36_CitationsAreValid ==
    (probe.fn = "normalizeSonarResults") =>
        \A i \in 1..Len(probe.out.citations.a) :
            LET citation == probe.out.citations.a[i]
            IN /\ Truthy(citation.title)
               /\ Truthy(citation.url)
               /\ isValidUrl(citation.url)

\* requests' is requests without the timestamps that left the window.
OnlyPruned == requests' = SelectSeq(requests, LAMBDA ts : now - ts < windowMs)

\* The RateLimiter methods that prune: checkLimit(), getTimeToWait(),
\* getStatus(), and waitUntilAllowed(), which calls getTimeToWait().
LimiterQueries == {"checkLimit", "getTimeToWait", "getStatus", "waitUntilAllowed"}

\* C25: a call of checkLimit(), getTimeToWait() or getStatus() leaves exactly
\* the timestamps less than windowMs old, in their order (one exactly
\* windowMs old goes); apart from these calls the sequence changes only by
\* increment(), which appends the current time, and reset(), which empties
\* it; the passing of time changes nothing.
C25_PrunedOnEveryQuery ==
    [][IF now' # now THEN requests' = requests
       ELSE /\ (probe'.last \in LimiterQueries)
               => /\ OnlyPruned
                  /\ \A i \in 1..Len(requests') : now - requests'[i] < windowMs
                  /\ \A i \in 1..Len(requests) :
                        (now - requests[i] >= windowMs)
                        => (\A j \in 1..Len(requests') : requests'[j] # requests[i])
            /\ (probe'.last = "increment") => (requests' = Append(requests, now))
            /\ (probe'.last = "reset") => (requests' = <<>>)
            /\ probe'.last \in LimiterQueries \cup {"increment", "reset"}]_vars

\* getStatus() has just dropped a timestamp exactly windowMs old and kept a
\* younger one.
C25_Witness ==
    /\ probe.fn = "RateLimiter" /\ probe.last = "getStatus" /\ probe.at = now
    /\ \E i \in 1..Len(probe.before) : now - probe.before[i] = windowMs
    /\ requests # <<>> /\ Len(requests) < Len(probe.before)
    /\ \A i \in 1..Len(requests) : now - requests[i] < windowMs

\* The timestamps of requests less than windowMs old.
InWindow == {requests[i] : i \in {j \in 1..Len(requests) : now - requests[j] < windowMs}}

\* The number of timestamps of requests less than windowMs old.
CountInWindow == Cardinality({j \in 1..Len(requests) : now - requests[j] < windowMs})

\* What C26 asks of the time to wait w returned in the step.
TimeToWaitIs(w) ==
    /\ (w = 0) <=> (CountInWindow < limit)
    /\ (w = 0) <=> checkLimit(requests, now).allowed
    /\ (CountInWindow >= limit)
       => LET oldest == CHOOSE x \in InWindow : \A y \in InWindow : x <= y
              waitTime == oldest + windowMs - now
          IN /\ w = IF waitTime >= retryAfterMs THEN waitTime ELSE retryAfterMs
             /\ w >= retryAfterMs /\ retryAfterMs > 0

\* C26: getTimeToWait() returns 0 exactly when fewer than limit timestamps
\* are less than windowMs old, which is when checkLimit() at that instant
\* returns true; otherwise it returns the larger of oldest + windowMs - now
\* and retryAfterMs, hence at least retryAfterMs, which is positive.  The
\* timeToWait of getStatus() is the same number.
C26_TimeToWait ==
    [][(now' = now)
       => /\ (probe'.last = "getTimeToWait") => TimeToWaitIs(probe'.timeToWait)
          /\ (probe'.last = "getStatus")
             => /\ TimeToWaitIs(probe'.status.timeToWait)
                /\ probe'.status.isAllowed <=> (probe'.status.timeToWait = 0)
                /\ probe'.status.current = CountInWindow]_vars

\* getTimeToWait() at the limit, when the oldest timestamp leaves the window
\* sooner than retryAfterMs from now: retryAfterMs is returned.
C26_Witness ==
    /\ probe.fn = "RateLimiter" /\ probe.last = "getTimeToWait" /\ probe.at = now
    /\ Len(requests) >= limit
    /\ \A i \in 1..Len(requests) : requests[i] + windowMs - now < retryAfterMs
    /\ probe.timeToWait = retryAfterMs

\* A waitUntilAllowed() is asleep and no increment() has run since its call.
WaitingUndisturbed == probe.wait.pc = "sleeping" /\ ~probe.wait.incremented

\* C27: waitUntilAllowed() returns only when getTimeToWait() has just given
\* 0, that is with fewer than limit timestamps in the window; each of its
\* sleeps is min(waitTime, pollMs) long, positive and at most pollMs; and
\* while time advances and no increment() runs, it returns in the end.
C27_WaitUntilAllowed ==
    /\ [][/\ (now' = now /\ probe'.last = "waitUntilAllowed")
             => /\ (probe'.wait.pc = "returned") <=> (CountInWindow < limit)
                /\ (probe'.wait.pc = "returned")
                   => /\ getTimeToWait(requests', now').value = 0
                      /\ Len(requests') < limit
                      /\ probe'.wait.waitTime = 0
                /\ (probe'.wait.pc = "sleeping")
                   => /\ probe'.wait.waitTime > 0
                      /\ probe'.wait.wake - now
                           = (IF probe'.wait.waitTime <= pollMs
                              THEN probe'.wait.waitTime ELSE pollMs)
                      /\ probe'.wait.wake - now \in 1..pollMs
          /\ (probe'.wait.pc = "returned" /\ probe.wait.pc # "returned")
             => (now' = now /\ probe'.last = "waitUntilAllowed")]_vars
    /\ (WaitingUndisturbed ~> (probe.wait.pc = "returned" \/ probe.wait.incremented))

\* A waitUntilAllowed() that found the limiter at its limit, slept, and
\* returns now that its latest getTimeToWait() has pruned the last timestamps.
C27_Witness ==
    /\ probe.fn = "RateLimiter" /\ probe.last = "waitUntilAllowed" /\ probe.at = now
    /\ probe.wait.pc = "returned" /\ probe.wait.since < now
    /\ ~probe.wait.incremented
    /\ Len(probe.before) >= limit
    /\ Len(requests) < limit

\* C28: set(key, data, ttl) puts {data, timestamp: now, ttl} under key,
\* whatever was there, with the ttl supplied whenever one is supplied and
\* defaultTtl only when none is; every other key keeps its entry.
C28_SetStoresSuppliedTtl ==
    [][(now' = now /\ probe'.last = "set")
       => /\ DOMAIN cache' = DOMAIN cache \cup {probe'.key}
          /\ cache'[probe'.key] =
               [data |-> probe'.data, timestamp |-> now,
                ttl |-> IF probe'.ttl = Undef THEN defaultTtl ELSE probe'.ttl.n]
          /\ \A k \in DOMAIN cache \ {probe'.key} : cache'[k] = cache[k]]_vars

\* The entry written under key k at time ts is in the cache.
Holds(k, ts) == k \in DOMAIN cache /\ cache[k].timestamp = ts

\* C29: the sweep fires once per period of the interval, whatever get() and
\* set() do in between.  It removes the entries with now - timestamp > ttl
\* and no others, and changes none; hence get(), now or at any later time,
\* returns for every key what it would have returned without the sweep, and
\* an entry that nobody reads or overwrites is gone in the end.
C29_Sweep ==
    /\ [][(now' = now /\ probe'.last = "sweep")
          => /\ now >= probe.nextSweep
             /\ probe'.nextSweep = now + cleanupIntervalMs
             /\ DOMAIN cache'
                  = {k \in DOMAIN cache : ~(now - cache[k].timestamp > cache[k].ttl)}
             /\ \A k \in DOMAIN cache' : cache'[k] = cache[k]
             /\ \A k \in CacheKeys, t \in now..CacheMaxTime :
                   cacheGet(cache', k, t).value = cacheGet(cache, k, t).value]_vars
    /\ \A k \in CacheKeys, ts \in 0..CacheMaxTime : Holds(k, ts) ~> ~Holds(k, ts)

\* A sweep has just removed an expired entry and left an unexpired one.
C29_Witness ==
    /\ probe.fn = "Cache" /\ probe.last = "sweep"
    /\ probe.nextSweep = now + cleanupIntervalMs
    /\ probe.removed # {}
    /\ \E k \in DOMAIN cache : now - cache[k].timestamp <= cache[k].ttl

\* The address with octets o lies in the CIDR block range: the leading
\* range.prefix bits of the two addresses, read as unsigned 32-bit numbers,
\* are the same.
InCidr(o, range) ==
    LET top(a) == (a[1] * 256 + a[2]) * 256 + a[3]
        p == range.prefix
    IN IF p <= 24
       THEN top(o) \div Pow2(24 - p) = top(range.ip) \div Pow2(24 - p)
       ELSE /\ top(o) = top(range.ip)
            /\ o[4] \div Pow2(32 - p) = range.ip[4] \div Pow2(32 - p)

\* C30: for every IPv4 address and every forbidden range, isIPInRange on the
\* 32-bit integers gives the answer of CIDR membership, also where the
\* first octet is 128 or more and the integer is negative, and for the /4
\* and /32 ranges; so the https URL on the address is refused exactly when
\* the address lies in one of the ranges.
C30_CidrMembership ==
    (probe.fn = "isIPInRange") =>
        LET o == probe.octets
            inSome == \E r \in 1..Len(FORBIDDEN_IP_RANGES) : InCidr(o, FORBIDDEN_IP_RANGES[r])
        IN /\ \A r \in 1..Len(FORBIDDEN_IP_RANGES) :
                 probe.inRange[r] <=> InCidr(o, FORBIDDEN_IP_RANGES[r])
           /\ (o[1] >= 128) <=> (probe.ipInt < 0)
           /\ probe.forbidden <=> inSome
           /\ probe.valid <=> ~inSome

\* A multicast address: its integer is negative, the /4 range holds it, the
\* URL is refused.
C30_Witness ==
    /\ probe.fn = "isIPInRange"
    /\ probe.octets = <<239, 255, 255, 255>>
    /\ probe.ipInt < 0
    /\ probe.inRange[12] /\ ~probe.inRange[13] /\ ~probe.inRange[14]
    /\ probe.forbidden /\ ~probe.valid

\* Settings the claim calls invalid: non-numeric, zero, negative.
InvalidSettings == {S(<<"a", "b", "c">>), S(<<"0">>), S(<<"-", "5">>)}

\* C31: whenever the module loads, every numeric setting that is non-numeric,
\* zero or negative is replaced by its default: limit 5, windowMs 1000,
\* retryAfterMs 1000, a ttl of thirty minutes, and a request timeout of
\* 10000 ms handed to withTimeout.
C31_InvalidFallsBack ==
    (probe.fn = "configure" /\ ~probe.threw /\ probe.setting \in InvalidSettings) =>
        /\ probe.limit = N(DefaultLimit)
        /\ probe.windowMs = N(DefaultWindowMs)
        /\ probe.retryAfterMs = N(DefaultRetryAfterMs)
        /\ probe.defaultTtl = N(DefaultTtlMinutes * MsPerMinute)
        /\ probe.timeout = N(DefaultTimeoutMs)

\* The module was loaded with every setting 'abc' and runs on the defaults.
C31_Witness ==
    /\ probe.fn = "configure" /\ ~probe.threw
    /\ probe.setting = S(<<"a", "b", "c">>)
    /\ probe.limit = N(DefaultLimit)
    /\ probe.timeout = N(DefaultTimeoutMs)

\* C33: two parameter sets whose upstream requests differ never derive the
\* same cache key.
C33_DifferentQueryDifferentKey ==
    (probe.fn = "createCacheKey") =>
        ((probe.payloadA # probe.payloadB) => (probe.keyA # probe.keyB))

====
